---- MODULE Spec2Model ----
(***************************************************************************)
(* Model of the decrypt-validate-forward pipeline of the N8N backend:      *)
(*   EncryptionService  (services/encryptionService.ts, src/unnamed/part_000)*)
(*   DataController     (controllers/dataController.ts, src/unnamed/part_002)*)
(*   N8NService         (src/src/services/n8nService.ts)                   *)
(*   errorHandler       (src/src/middleware/errorHandler.ts)               *)
(*   authenticateToken and the router's middleware                         *)
(*                      (src/src/middleware/validation.ts)                 *)
(*   the data router    (src/src/routes/dataRoutes.ts)                     *)
(*                                                                         *)
(* Spec is one request on the data router, from its route to its answer.   *)
(* RouterSpec is one request from the router's first middleware to the     *)
(* call of its handler.                                                    *)
(* ConcurrentSpec is several invocations of executeDataFlow whose steps     *)
(* interleave.                                                             *)
(*                                                                         *)
(* JavaScript values are tagged records (field t), so that values of       *)
(* different JavaScript types can live in one variable.  AES-256-GCM is    *)
(* modelled symbolically: a ciphertext buffer names the plaintext, key and *)
(* nonce it was sealed with, and the authentication tag names the key,     *)
(* nonce and ciphertext it authenticates.                                  *)
(***************************************************************************)
EXTENDS Integers, Sequences, FiniteSets, TLC

-----------------------------------------------------------------------------
(* Bounds of the model *)

\* longest array of records in a decrypted plaintext or a demo batch
MaxUsers == 2

\* the time, in milliseconds, between two looks at a pending call
TickMs == 10000

\* invocations of executeDataFlow that run at the same time
MaxFlows == 2

\* clear and health calls made while they run
MaxSideCalls == 1

-----------------------------------------------------------------------------
(* Program constants *)

threshold == 1024 * 1024

chunkSize == 64 * 1024

\* N8NService.timeout, in milliseconds
timeout == 30000

FIXED_TOKEN == "n8n-api-token-2024-fixed-access"

-----------------------------------------------------------------------------
(* JavaScript values *)

Undef == [t |-> "undef"]

Null == [t |-> "null"]

Bool(b) == [t |-> "bool", b |-> b]

Num(n) == [t |-> "num", n |-> n]

\* a short string, given by its characters
Str(s) == [t |-> "str", s |-> s]

\* a string of `chars` hexadecimal digits, given by the bytes it encodes
HexStr(buf) == [t |-> "hex", chars |-> 2 * buf.len, buf |-> buf]

Arr(items) == [t |-> "arr", items |-> items]

\* JavaScript truthiness, as used by !x and x && y
Truthy(v) ==
  CASE v.t = "undef" -> FALSE
    [] v.t = "null"  -> FALSE
    [] v.t = "bool"  -> v.b
    [] v.t = "num"   -> v.n # 0
    [] v.t = "str"   -> Len(v.s) > 0
    [] v.t = "hex"   -> v.chars > 0
    [] OTHER         -> TRUE

\* typeof v === 'string'
IsString(v) == v.t \in {"str", "hex"}

\* v.length of a string
StrLength(v) == IF v.t = "str" THEN Len(v.s) ELSE v.chars

\* typeof v === 'object'  (null and arrays included)
IsObjectType(v) == v.t \in {"obj", "arr", "null"}

\* v.name for a non-nullish v: a missing property reads as undefined
Prop(v, name) == IF v.t = "obj" /\ name \in DOMAIN v THEN v[name] ELSE Undef

\* reading a property of null or undefined throws a TypeError
Nullish(v) == v.t \in {"undef", "null"}

-----------------------------------------------------------------------------
(* Strings: String(v), trim(), toLowerCase() *)

Whitespace == {" "}

Digit(n) == CASE n = 0 -> "0" [] n = 1 -> "1" [] n = 2 -> "2" [] n = 3 -> "3"
              [] n = 4 -> "4" [] n = 5 -> "5" [] n = 6 -> "6" [] n = 7 -> "7"
              [] n = 8 -> "8" [] OTHER -> "9"

\* String(v) for the value kinds a record field can hold
ToStr(v) ==
  CASE v.t = "str"  -> v.s
    [] v.t = "num"  -> <<Digit(v.n)>>
    [] v.t = "bool" -> IF v.b THEN <<"t", "r", "u", "e">> ELSE <<"f", "a", "l", "s", "e">>
    [] OTHER        -> <<"[", "o", "]">>

RECURSIVE TrimStart(_)
TrimStart(s) ==
  IF s = <<>> THEN <<>>
  ELSE IF Head(s) \in Whitespace THEN TrimStart(Tail(s)) ELSE s

RECURSIVE TrimEnd(_)
TrimEnd(s) ==
  IF s = <<>> THEN <<>>
  ELSE IF s[Len(s)] \in Whitespace THEN TrimEnd(SubSeq(s, 1, Len(s) - 1)) ELSE s

Trim(s) == TrimEnd(TrimStart(s))

LowerChar(c) == CASE c = "A" -> "a" [] c = "B" -> "b" [] c = "X" -> "x" [] OTHER -> c

ToLowerCase(s) == [i \in 1..Len(s) |-> LowerChar(s[i])]

-----------------------------------------------------------------------------
(* Buffers and the symbolic AES-256-GCM of Node's crypto module *)

\* a Buffer: its length in bytes and a symbolic description of its bytes
Buffer(len, data) == [len |-> len, data |-> data]

HexDigits == {"0", "1", "2", "3", "4", "5", "6", "7", "8", "9",
              "a", "b", "c", "d", "e", "f", "A", "B", "C", "D", "E", "F"}

\* number of leading pairs of hexadecimal digits of a character sequence
RECURSIVE HexPairs(_)
HexPairs(s) ==
  IF Len(s) >= 2 /\ s[1] \in HexDigits /\ s[2] \in HexDigits
  THEN 1 + HexPairs(SubSeq(s, 3, Len(s)))
  ELSE 0

\* Buffer.from(v, 'hex') for a string v: decoding stops at the first pair
\* that is not hexadecimal
HexDecode(v) ==
  IF v.t = "hex" THEN v.buf
  ELSE Buffer(HexPairs(v.s), [k |-> "lit", s |-> SubSeq(v.s, 1, 2 * HexPairs(v.s))])

\* crypto.pbkdf2Sync(password, salt, iterations, keylen, digest)
Pbkdf2(password, salt, iterations, keylen, digest) ==
  [password |-> password, salt |-> salt, iterations |-> iterations,
   keylen |-> keylen, digest |-> digest]

\* the key derived in decryptHybrid
DemoKey == Pbkdf2("default-password-for-demo", "default-salt-for-demo", 100000, 32, "sha256")

\* the buffer of no bytes
EmptyBuffer == Buffer(0, [k |-> "empty"])

\* the authentication tag GCM computes over a whole ciphertext; buffers of
\* no bytes are all the same ciphertext
GcmMac(key, ivBuf, ctBuf) ==
  [k |-> "mac", key |-> key, iv |-> ivBuf,
   ct |-> IF ctBuf.len = 0 THEN EmptyBuffer ELSE ctBuf]

\* the ciphertext of plaintext pt sealed under key and nonce
GcmSeal(key, ivBuf, pt) ==
  Buffer(pt.size, [k |-> "ct", pt |-> pt, key |-> key, iv |-> ivBuf, flip |-> 0])

\* what the counter-mode keystream of (key, nonce) turns the bytes of ctBuf
\* into: the sealed plaintext, or bytes that are no JSON text
GcmPlain(key, ivBuf, ctBuf) ==
  IF /\ ctBuf.data.k = "ct"
     /\ ctBuf.data.flip = 0
     /\ ctBuf.data.key = key
     /\ ctBuf.data.iv = ivBuf
  THEN ctBuf.data.pt
  ELSE [size |-> ctBuf.len, doc |-> [t |-> "notjson"]]

\* tag lengths setAuthTag accepts for GCM
ValidTagLengths == {4, 8, 12, 13, 14, 15, 16}

\* a slice [from, to) of a buffer
Slice(buf, from, to) == [buf |-> buf, from |-> from, to |-> to]

RECURSIVE TotalLen(_)
TotalLen(slices) ==
  IF slices = <<>> THEN 0
  ELSE (Head(slices).to - Head(slices).from) + TotalLen(Tail(slices))

\* slices that are the consecutive pieces of one buffer, starting at pos
RECURSIVE Consecutive(_, _, _)
Consecutive(slices, buf, pos) ==
  IF slices = <<>> THEN TRUE
  ELSE /\ Head(slices).buf = buf
       /\ Head(slices).from = pos
       /\ Head(slices).to >= pos
       /\ Consecutive(Tail(slices), buf, Head(slices).to)

\* the bytes a decipher has been fed so far, as one buffer
FedBuffer(fed) ==
  IF /\ fed # <<>>
     /\ Consecutive(fed, fed[1].buf, 0)
     /\ TotalLen(fed) = fed[1].buf.len
  THEN fed[1].buf
  ELSE Buffer(TotalLen(fed), [k |-> "mixed"])

\* crypto.createDecipheriv(algorithm, key, iv) followed by setAuthTag(tag)
CreateDecipheriv(key, ivBuf, tagBuf) ==
  [key |-> key, iv |-> ivBuf, tag |-> tagBuf, fed |-> <<>>]

\* createDecipheriv throws on an empty nonce
IvRejected(ivBuf) == ivBuf.len = 0

\* setAuthTag throws on a tag of the wrong length
TagRejected(tagBuf) == tagBuf.len \notin ValidTagLengths

\* decipher.update(chunk): the decipher after the call
DecipherUpdate(dec, chunk) == [dec EXCEPT !.fed = Append(dec.fed, chunk)]

\* decipher.update(chunk): the plaintext bytes it returns.  The keystream
\* position is the number of bytes fed before, so a chunk fed out of place
\* decrypts to garbage.
UpdateOutput(dec, chunk) ==
  IF chunk.from = TotalLen(dec.fed)
  THEN Slice(GcmPlain(dec.key, dec.iv, chunk.buf), chunk.from, chunk.to)
  ELSE Slice([size |-> chunk.buf.len, doc |-> [t |-> "notjson"]], chunk.from, chunk.to)

\* decipher.final() succeeds iff the tag authenticates everything fed
\* (a truncated tag of valid length is accepted by setAuthTag)
DecipherFinalOk(dec) == dec.tag.data = GcmMac(dec.key, dec.iv, FedBuffer(dec.fed))

\* the message of the error decipher.final() throws
FinalErrorMessage == "Unsupported state or unable to authenticate data"

\* Buffer.concat(chunks).toString('utf8'), and string + string: the text as
\* maximal runs of consecutive plaintext bytes (empty pieces vanish)
RECURSIVE ConcatText(_)
ConcatText(slices) ==
  IF slices = <<>> THEN <<>>
  ELSE LET h == Head(slices)
           r == ConcatText(Tail(slices))
       IN IF h.from = h.to THEN r
          ELSE IF r # <<>> /\ r[1].buf = h.buf /\ r[1].from = h.to
               THEN <<Slice(h.buf, h.from, r[1].to)>> \o Tail(r)
               ELSE <<h>> \o r

\* JSON.parse(text) throws a SyntaxError
JsonParseFails(text) ==
  \/ Len(text) # 1
  \/ text[1].from # 0
  \/ text[1].to # text[1].buf.size
  \/ text[1].buf.doc.t = "notjson"

\* JSON.parse(text) when it does not throw
JsonParse(text) == text[1].buf.doc

-----------------------------------------------------------------------------
(* Errors *)

\* an Error object: its name, its message (a template, the number and the
\* text interpolated into it) and its statusCode (0 when it has none)
Err(name, text, arg, remote, statusCode) ==
  [name |-> name, text |-> text, arg |-> arg, remote |-> remote,
   statusCode |-> statusCode]

\* new CustomError(message, statusCode)
CustomError(text, arg, remote, statusCode) == Err("Error", text, arg, remote, statusCode)

NoError == Err("", "", 0, "", 0)

\* the message of an error as the caller reads it: the text with its
\* arguments filled in
MessageText(error) == [text |-> error.text, arg |-> error.arg, remote |-> error.remote]

\* variant: the message of every error without a status code of its own is
\* replaced by one fixed text
errorHandler_Generic(error, development) ==
  [status  |-> IF error.name = "TypeError" THEN 400
               ELSE IF error.statusCode # 0 THEN error.statusCode ELSE 500,
   success |-> FALSE,
   error   |-> IF error.statusCode # 0
               THEN MessageText(error)
               ELSE [text |-> "Erro interno do servidor", arg |-> 0, remote |-> ""],
   stack   |-> NoError]

\* errorHandler: the answer res.status(statusCode).json(response) built for
\* an error passed to next(); the stack, which begins with the name and the
\* message of the error, is added when NODE_ENV is development
errorHandler(error, development) ==
  LET statusCode == IF error.statusCode # 0 THEN error.statusCode ELSE 500
      message    == IF error.text # ""
                    THEN MessageText(error)
                    ELSE [text |-> "Erro interno do servidor", arg |-> 0, remote |-> ""]
      fixed(text) == [text |-> text, arg |-> 0, remote |-> ""]
  IN [status  |-> IF error.name \in {"ValidationError", "CastError", "SyntaxError", "TypeError"}
                  THEN 400 ELSE statusCode,
      success |-> FALSE,
      error   |-> CASE error.name = "ValidationError" -> fixed("Dados de entrada invalidos")
                    [] error.name = "CastError"       -> fixed("Formato de dados invalido")
                    [] error.name = "SyntaxError"     -> fixed("Erro de sintaxe nos dados")
                    [] error.name = "TypeError"       -> fixed("Tipo de dados invalido")
                    [] OTHER                          -> message,
      stack   |-> IF development THEN error ELSE NoError]

-----------------------------------------------------------------------------
(* EncryptionService: envelope validation and record validation *)

\* variant: the authTag tests are left out
validateEncryptedData_NoTag(data) ==
  IF Truthy(data) /\ Truthy(Prop(data, "mockData")) /\ Truthy(Prop(data, "users"))
  THEN TRUE
  ELSE /\ Truthy(data)
       /\ IsObjectType(data)
       /\ IsString(Prop(data, "encryptedData"))
       /\ IsString(Prop(data, "iv"))
       /\ StrLength(Prop(data, "encryptedData")) > 0
       /\ StrLength(Prop(data, "iv")) > 0

\* variant: the three fields only have to be strings
validateEncryptedData_TypesOnly(data) ==
  IF Truthy(data) /\ Truthy(Prop(data, "mockData")) /\ Truthy(Prop(data, "users"))
  THEN TRUE
  ELSE /\ Truthy(data)
       /\ IsObjectType(data)
       /\ IsString(Prop(data, "encryptedData"))
       /\ IsString(Prop(data, "iv"))
       /\ IsString(Prop(data, "authTag"))

\* validateEncryptedData(data), made a boolean by the caller's !
validateEncryptedData(data) ==
  IF Truthy(data) /\ Truthy(Prop(data, "mockData")) /\ Truthy(Prop(data, "users"))
  THEN TRUE
  ELSE /\ Truthy(data)
       /\ IsObjectType(data)
       /\ IsString(Prop(data, "encryptedData"))
       /\ IsString(Prop(data, "iv"))
       /\ IsString(Prop(data, "authTag"))
       /\ StrLength(Prop(data, "encryptedData")) > 0
       /\ StrLength(Prop(data, "iv")) > 0
       /\ StrLength(Prop(data, "authTag")) > 0

\* the mock test at the head of processEncryptedData
IsMockData(data) == Truthy(Prop(data, "mockData")) /\ Truthy(Prop(data, "users"))

\* the completeness test of processEncryptedData
IsIncomplete(data) ==
  \/ ~Truthy(Prop(data, "encryptedData"))
  \/ ~Truthy(Prop(data, "iv"))
  \/ ~Truthy(Prop(data, "authTag"))

\* variant: the email is trimmed but not lower-cased
NormalizeUser_NoLower(user) ==
  [t |-> "obj",
   nome  |-> Str(Trim(ToStr(Prop(user, "nome")))),
   email |-> Str(Trim(ToStr(Prop(user, "email")))),
   phone |-> Str(Trim(ToStr(Prop(user, "phone"))))]

\* the object the map callback returns for one accepted element
NormalizeUser(user) ==
  [t |-> "obj",
   nome  |-> Str(Trim(ToStr(Prop(user, "nome")))),
   email |-> Str(ToLowerCase(Trim(ToStr(Prop(user, "email"))))),
   phone |-> Str(Trim(ToStr(Prop(user, "phone"))))]

\* the callback's test !user.nome || !user.email || !user.phone
UserIncomplete(user) ==
  \/ ~Truthy(Prop(user, "nome"))
  \/ ~Truthy(Prop(user, "email"))
  \/ ~Truthy(Prop(user, "phone"))

\* variant: each accepted record is put in front of the earlier ones
RECURSIVE MapUsers_Reversed(_, _, _)
MapUsers_Reversed(items, i, acc) ==
  IF i > Len(items)
  THEN [ok |-> TRUE, users |-> acc, error |-> NoError, examined |-> Len(items)]
  ELSE IF Nullish(items[i])
       THEN [ok |-> FALSE, users |-> <<>>, examined |-> i,
             error |-> Err("TypeError", "Cannot read properties of null (reading 'nome')", 0, "", 0)]
       ELSE IF UserIncomplete(items[i])
            THEN [ok |-> FALSE, users |-> <<>>, examined |-> i,
                  error |-> Err("Error", "Usuario %d esta incompleto", i, "", 0)]
            ELSE MapUsers_Reversed(items, i + 1, <<NormalizeUser(items[i])>> \o acc)

\* parsedData.map(callback) from element i on: the users built, or the error
\* the callback threw, and the number of elements the callback was called on
RECURSIVE MapUsers(_, _, _)
MapUsers(items, i, acc) ==
  IF i > Len(items)
  THEN [ok |-> TRUE, users |-> acc, error |-> NoError, examined |-> Len(items)]
  ELSE IF Nullish(items[i])
       THEN [ok |-> FALSE, users |-> <<>>, examined |-> i,
             error |-> Err("TypeError", "Cannot read properties of null (reading 'nome')", 0, "", 0)]
       ELSE IF UserIncomplete(items[i])
            THEN [ok |-> FALSE, users |-> <<>>, examined |-> i,
                  error |-> Err("Error", "Usuario %d esta incompleto", i, "", 0)]
            ELSE MapUsers(items, i + 1, Append(acc, NormalizeUser(items[i])))

\* sendDataInChunks: the chunks pushed into the input stream, in order
\* variant: one byte is skipped between two chunks
RECURSIVE ChunksFrom_Gap(_, _)
ChunksFrom_Gap(buf, i) ==
  IF i < buf.len
  THEN <<Slice(buf, i, IF i + chunkSize < buf.len THEN i + chunkSize ELSE buf.len)>>
       \o ChunksFrom_Gap(buf, i + chunkSize + 1)
  ELSE <<>>

\* variant: the chunks are pushed from the last one to the first
RECURSIVE ChunksFrom_Descending(_, _)
ChunksFrom_Descending(buf, i) ==
  IF i < buf.len
  THEN ChunksFrom_Descending(buf, i + chunkSize)
       \o <<Slice(buf, i, IF i + chunkSize < buf.len THEN i + chunkSize ELSE buf.len)>>
  ELSE <<>>

RECURSIVE ChunksFrom(_, _)
ChunksFrom(buf, i) ==
  IF i < buf.len
  THEN <<Slice(buf, i, IF i + chunkSize < buf.len THEN i + chunkSize ELSE buf.len)>>
       \o ChunksFrom(buf, i + chunkSize)
  ELSE <<>>

sendDataInChunks(buf) == ChunksFrom(buf, 0)

\* variant: a buffer of exactly threshold bytes is still decrypted at once
UseBuffer_Inclusive(dataSize) == dataSize <= threshold

\* the choice made in decryptHybrid
UseBuffer(dataSize) == dataSize < threshold

-----------------------------------------------------------------------------
(* N8NService *)

\* the synthetic batch fetchEncryptedData substitutes (three complete,
\* normalized records; their texts are abbreviated)
MockUser(nome, email, phone) ==
  [t |-> "obj", nome |-> Str(nome), email |-> Str(email), phone |-> Str(phone)]

mockUsers ==
  Arr(<<MockUser(<<"J">>, <<"j", "@", "x">>, <<"1", "1", "9">>),
        MockUser(<<"M">>, <<"m", "@", "x">>, <<"1", "1", "8">>),
        MockUser(<<"P">>, <<"p", "@", "x">>, <<"1", "1", "7">>)>>)

\* variant: the body of the response is returned as it came
FetchResult_PassThrough(data) == data

\* what fetchEncryptedData returns for the body of a successful response
FetchResult(data) ==
  IF /\ Truthy(data)
     /\ Truthy(Prop(data, "success"))
     /\ Truthy(Prop(data, "data"))
     /\ Truthy(Prop(Prop(data, "data"), "encrypted"))
  THEN [t |-> "obj", mockData |-> Bool(TRUE), users |-> mockUsers,
        originalData |->
          [t |-> "obj",
           encryptedData |-> Prop(Prop(Prop(data, "data"), "encrypted"), "encrypted"),
           iv |-> Prop(Prop(Prop(data, "data"), "encrypted"), "iv"),
           authTag |-> Prop(Prop(Prop(data, "data"), "encrypted"), "authTag"),
           algorithm |-> IF Truthy(Prop(Prop(data, "data"), "algorithm"))
                         THEN Prop(Prop(data, "data"), "algorithm")
                         ELSE Str(<<"g", "c", "m">>)]]
  ELSE data

\* error.response?.status || 500
StatusOf(e) == IF e.status # 0 THEN e.status ELSE 500

\* error.response?.data?.message || error.message
MessageOf(e) == IF e.remote # "" THEN e.remote ELSE e.message

\* the error fetchEncryptedData throws when axios.get fails
FetchError(e) ==
  IF e.k = "axios"
  THEN Err("Error", "Erro ao buscar dados (%d): %s", StatusOf(e), MessageOf(e), 0)
  ELSE Err("Error", "Erro interno ao buscar dados criptografados", 0, "", 0)

\* variant: a failed post is reported as a success
SendResult_AlwaysSuccess(o) == [success |-> TRUE, error |-> NoError]

\* variant: every failure of the post is reported with the internal text
SendResult_Internal(o) ==
  IF o.k = "ok"
  THEN [success |-> TRUE, error |-> NoError]
  ELSE [success |-> FALSE,
        error |-> Err("", "Erro interno ao comunicar com N8N", 0, "", 0)]

\* what sendDataToN8N returns for the outcome of axios.post
SendResult(o) ==
  IF o.k = "ok"
  THEN [success |-> TRUE, error |-> NoError]
  ELSE IF o.k = "axios"
       THEN [success |-> FALSE,
             error |-> Err("", "Erro do N8N (%d): %s", StatusOf(o), MessageOf(o), 0)]
       ELSE [success |-> FALSE,
             error |-> Err("", "Erro interno ao comunicar com N8N", 0, "", 0)]

\* variant: a failed clear request is reported as a success
ClearResult_AlwaysSuccess(o) == [success |-> TRUE, error |-> NoError]

\* what clearDataInN8N returns for the outcome of axios.post
ClearResult(o) ==
  IF o.k = "ok"
  THEN [success |-> TRUE, error |-> NoError]
  ELSE IF o.k = "axios"
       THEN [success |-> FALSE,
             error |-> Err("", "Erro do N8N (%d): %s", StatusOf(o), MessageOf(o), 0)]
       ELSE [success |-> FALSE,
             error |-> Err("", "Erro interno ao comunicar com N8N para limpeza", 0, "", 0)]

\* variant: an error that is not an answer of the sink is thrown again
checkN8NHealth_Rethrow(o) ==
  [threw |-> o.k \notin {"ok"} /\ o.status = 0,
   value |-> o.k = "ok",
   error |-> Err("Error", o.message, 0, "", 0)]

\* checkN8NHealth for the outcome of axios.get: true when the call returns,
\* false from the catch block
checkN8NHealth(o) ==
  [threw |-> FALSE, value |-> o.k = "ok", error |-> NoError]

\* the error fetchDataFromExternalWebhook throws when axios.get fails
WebhookError(e) ==
  IF e.k = "axios"
  THEN Err("Error", "Erro ao buscar dados do webhook externo (%d): %s",
           StatusOf(e), MessageOf(e), 0)
  ELSE Err("Error", "Erro interno ao buscar dados do webhook externo", 0, "", 0)

-----------------------------------------------------------------------------
(* The environment: what the external source and the sink may answer *)

\* size in bytes of the plaintexts that carry the record batches
SmallSize == 64

NotJson == [t |-> "notjson"]

RawUser(nome, email, phone, id) ==
  [t |-> "obj", nome |-> nome, email |-> email, phone |-> phone, id |-> id]

GoodUser == RawUser(Str(<<" ", "A", "b", " ">>), Str(<<" ", "A", "@", "X", " ">>),
                    Str(<<"1", " ">>), Undef)

\* the elements a decrypted array may hold
Elements ==
  { RawUser(n, e, p, Undef) :
      n \in {Str(<<" ", "A", "b", " ">>), Undef},
      e \in {Str(<<" ", "A", "@", "X", " ">>), Str(<<>>)},
      p \in {Str(<<"1", " ">>), Num(7)} }
  \cup { RawUser(Str(<<"B">>), Str(<<"b", "@", "x">>), Str(<<"2">>), Num(1)),
         RawUser(Str(<<" ">>), Str(<<"a", "@", "x">>), Str(<<"3">>), Undef),
         Null,
         Num(5) }

UserArrays == UNION { [1..n -> Elements] : n \in 0..MaxUsers }

\* the documents a plaintext may be
Docs == {NotJson, Null, RawUser(Undef, Undef, Undef, Undef)}
        \cup { Arr(a) : a \in UserArrays }

IvA == Buffer(12, [k |-> "iv", id |-> 1])

IvB == Buffer(12, [k |-> "iv", id |-> 2])

OtherKey == Pbkdf2("another-password", "another-salt", 100000, 32, "sha256")

Tampers == {"none", "ciphertext", "nonce", "tag", "shorttag", "badtaglen", "badnonce"}

\* the envelope a sender builds by sealing pt under key and IvA, then
\* altered as `tamper` says
SealedEnvelope(key, pt, tamper) ==
  LET ct  == GcmSeal(key, IvA, pt)
      mac == GcmMac(key, IvA, ct)
  IN [t |-> "obj",
      encryptedData |-> IF tamper = "ciphertext"
                        THEN HexStr([ct EXCEPT !.data.flip = 1])
                        ELSE HexStr(ct),
      iv |-> CASE tamper = "nonce"    -> HexStr(IvB)
               [] tamper = "badnonce" -> Str(<<"z", "z">>)
               [] OTHER               -> HexStr(IvA),
      authTag |-> CASE tamper = "tag"       -> HexStr(Buffer(16, [k |-> "junk"]))
                    [] tamper = "shorttag"  -> HexStr(Buffer(4, mac))
                    [] tamper = "badtaglen" -> HexStr(Buffer(3, mac))
                    [] OTHER                -> HexStr(Buffer(16, mac))]

\* small authentic envelopes around every document
RecordEnvelopes ==
  { SealedEnvelope(DemoKey, [size |-> SmallSize, doc |-> d], "none") : d \in Docs }

Sizes == {1, threshold - 1, threshold, threshold + 1, threshold + chunkSize}

\* envelopes of every size around two documents, under both keys, altered
\* in every way
CryptoEnvelopes ==
  { SealedEnvelope(key, [size |-> n, doc |-> d], tamper) :
      key \in {DemoKey, OtherKey}, n \in Sizes,
      d \in {NotJson, Arr(<<GoodUser>>)}, tamper \in Tampers }

\* the authentic envelope around the plaintext of no bytes
EmptyEnvelopes ==
  { SealedEnvelope(DemoKey, [size |-> 0, doc |-> NotJson], "none") }

FieldChoices == {Undef, Num(7), Str(<<>>), HexStr(IvA)}

\* objects whose three envelope fields are absent, not strings or empty
PartialEnvelopes ==
  { [t |-> "obj", encryptedData |-> c, iv |-> i, authTag |-> a] :
      c \in FieldChoices, i \in FieldChoices, a \in FieldChoices }

\* demo batches as the source itself may send them
DemoBatches ==
  { [t |-> "obj", mockData |-> Bool(TRUE), users |-> u] :
      u \in {Arr(a) : a \in UserArrays} \cup {Num(5), Arr(<<>>)} }

\* bodies of the documented shape { success, data: { encrypted } }
DocumentedBodies ==
  { [t |-> "obj", success |-> Bool(b),
     data |-> [t |-> "obj",
               encrypted |-> SealedEnvelope(OtherKey, [size |-> SmallSize, doc |-> NotJson], "none"),
               algorithm |-> Undef]] : b \in BOOLEAN }

ResponseBodies ==
  RecordEnvelopes \cup CryptoEnvelopes \cup EmptyEnvelopes \cup PartialEnvelopes
  \cup DemoBatches
  \cup DocumentedBodies \cup {Undef, Null, Num(5), Str(<<"x">>)}

\* the ways an axios call fails; axios marks a timeout with the code
\* ECONNABORTED and the message 'timeout of <n>ms exceeded'
AxiosErrors ==
  { [k |-> "axios", code |-> "ECONNABORTED", status |-> 0, remote |-> "",
     message |-> "timeout of 30000ms exceeded"],
    [k |-> "axios", code |-> "ERR_NETWORK", status |-> 0, remote |-> "",
     message |-> "Network Error"],
    [k |-> "axios", code |-> "ERR_BAD_REQUEST", status |-> 404, remote |-> "",
     message |-> "Request failed with status code 404"],
    [k |-> "axios", code |-> "ERR_BAD_RESPONSE", status |-> 503, remote |-> "workflow down",
     message |-> "Request failed with status code 503"],
    [k |-> "axios", code |-> "ERR_BAD_RESPONSE", status |-> 500,
     remote |-> "timeout of 30000ms exceeded",
     message |-> "Request failed with status code 500"],
    [k |-> "other", code |-> "", status |-> 0, remote |-> "", message |-> "unexpected"] }

\* the axios call gave up waiting
IsTimeout(o) == o.k = "axios" /\ o.code = "ECONNABORTED"

AxiosOk == [k |-> "ok", code |-> "", status |-> 200, remote |-> "", message |-> ""]

-----------------------------------------------------------------------------
(* Requests, routes and authenticateToken *)

\* a request header: absent, or a string given as its pieces between
\* single spaces (what split(' ') returns)
Header(present, words) == [present |-> present, words |-> words]

NoHeader == Header(FALSE, <<>>)

\* if (header): present and not the empty string
HeaderTruthy(h) == h.present /\ h.words # <<"">>

AuthorizationHeaders ==
  { NoHeader,
    Header(TRUE, <<"Bearer", FIXED_TOKEN>>),
    Header(TRUE, <<"Bearer", "another-token">>),
    Header(TRUE, <<FIXED_TOKEN>>),
    Header(TRUE, <<"Bearer", "", FIXED_TOKEN>>) }

XAccessTokens ==
  { NoHeader, Header(TRUE, <<FIXED_TOKEN>>), Header(TRUE, <<"another-token">>) }

Routes == {"execute", "clear", "get-data", "health", "info"}

Requests ==
  { [route |-> r, authorization |-> a, xAccessToken |-> x] :
      r \in Routes, a \in AuthorizationHeaders, x \in XAccessTokens }

NoRequest == [route |-> "", authorization |-> NoHeader, xAccessToken |-> NoHeader]

\* the routes declared with authenticateToken, and with criticalRateLimit
ProtectedRoutes == {"execute", "clear", "get-data"}

LimitedRoutes == {"execute", "clear"}

\* the handler a route ends in
HandlerOf(route) ==
  CASE route = "execute"  -> "executeDataFlow"
    [] route = "clear"    -> "clearData"
    [] route = "get-data" -> "getData"
    [] route = "health"   -> "healthCheck"
    [] OTHER              -> "getApiInfo"

\* the token authenticateToken takes from the request: the second piece of
\* Authorization when that header is there, else x-access-token; '' stands
\* for the initial '' and for an undefined second piece alike (both fail
\* the test !token)
TokenOf(req) ==
  IF HeaderTruthy(req.authorization)
  THEN IF Len(req.authorization.words) >= 2 THEN req.authorization.words[2] ELSE ""
  ELSE IF HeaderTruthy(req.xAccessToken)
       THEN req.xAccessToken.words[1]
       ELSE ""

\* variant: any token that is there is let through
authenticateToken_AnyToken(req) ==
  IF TokenOf(req) = ""
  THEN [next |-> FALSE, status |-> 401, code |-> "MISSING_TOKEN"]
  ELSE [next |-> TRUE, status |-> 0, code |-> ""]

\* authenticateToken: next(), or the answer it sends itself
authenticateToken(req) ==
  IF TokenOf(req) = ""
  THEN [next |-> FALSE, status |-> 401, code |-> "MISSING_TOKEN"]
  ELSE IF TokenOf(req) = FIXED_TOKEN
       THEN [next |-> TRUE, status |-> 0, code |-> ""]
       ELSE [next |-> FALSE, status |-> 403, code |-> "INVALID_TOKEN"]

-----------------------------------------------------------------------------
(* The middleware of the data router: attackDetection, sanitizeInput,
   payloadSizeLimit (router.use, in this order), and validateRequest and
   validateQuery, which no route of the router mounts.  A middleware is
   given by what it does with one request: whether it calls next(), and the
   status and error text of the answer it sends itself (status 0: none). *)

\* the ten patterns of attackDetection, built of the pieces of a regular
\* expression
attackPatterns ==
  LET
    \* \w of a regular expression; \s is Whitespace
    WordChars ==
      {"a", "b", "c", "d", "e", "f", "g", "h", "i", "j", "k", "l", "m", "n", "o", "p", "q",
       "r", "s", "t", "u", "v", "w", "x", "y", "z", "A", "B", "C", "D", "E", "F", "G", "H",
       "I", "J", "K", "L", "M", "N", "O", "P", "Q", "R", "S", "T", "U", "V", "W", "X", "Y",
       "Z", "0", "1", "2", "3", "4", "5", "6", "7", "8", "9", "_"}
    \* the pieces of a regular expression: a character, class+ and class*
    Lit(c) == [k |-> "lit", c |-> c, class |-> {}]
    Plus(class) == [k |-> "plus", c |-> "", class |-> class]
    Star(class) == [k |-> "star", c |-> "", class |-> class]
    Lits(s) == [i \in 1..Len(s) |-> Lit(s[i])]
  IN
    << Lits(<<"<", "s", "c", "r", "i", "p", "t">>),
       Lits(<<"j", "a", "v", "a", "s", "c", "r", "i", "p", "t", ":">>),
       Lits(<<"o", "n">>) \o <<Plus(WordChars), Star(Whitespace), Lit("=")>>,
       Lits(<<"u", "n", "i", "o", "n">>) \o <<Plus(Whitespace)>> \o Lits(<<"s", "e", "l", "e", "c", "t">>),
       Lits(<<"d", "r", "o", "p">>) \o <<Plus(Whitespace)>> \o Lits(<<"t", "a", "b", "l", "e">>),
       Lits(<<"d", "e", "l", "e", "t", "e">>) \o <<Plus(Whitespace)>> \o Lits(<<"f", "r", "o", "m">>),
       Lits(<<"i", "n", "s", "e", "r", "t">>) \o <<Plus(Whitespace)>> \o Lits(<<"i", "n", "t", "o">>),
       Lits(<<"u", "p", "d", "a", "t", "e">>) \o <<Plus(Whitespace)>> \o Lits(<<"s", "e", "t">>),
       Lits(<<"e", "x", "e", "c">>) \o <<Star(Whitespace), Lit("(")>>,
       Lits(<<"e", "v", "a", "l">>) \o <<Star(Whitespace), Lit("(")>> >>

\* the pattern matches the text from position i on (flag i: the case of a
\* letter does not count)
RECURSIVE MatchesAt(_, _, _)
MatchesAt(pattern, text, i) ==
  IF pattern = <<>> THEN TRUE
  ELSE LET h == Head(pattern)
       IN IF h.k = "lit"
          THEN /\ i <= Len(text)
               /\ LowerChar(text[i]) = h.c
               /\ MatchesAt(Tail(pattern), text, i + 1)
          ELSE \E n \in (IF h.k = "plus" THEN 1 ELSE 0)..(Len(text) - i + 1) :
                 /\ \A j \in i..(i + n - 1) : text[j] \in h.class
                 /\ MatchesAt(Tail(pattern), text, i + n)

\* pattern.test(text)
Test(pattern, text) == \E i \in 1..(Len(text) + 1) : MatchesAt(pattern, text, i)

\* the own keys of an object, in the order JSON.stringify and for..in visit
\* them (the objects of the model have at most one)
RECURSIVE KeysOf(_)
KeysOf(names) ==
  IF names = {} THEN <<>>
  ELSE LET k == CHOOSE k \in names : TRUE IN <<k>> \o KeysOf(names \ {k})

\* JSON.stringify(v); a key is one character, and no text of the model
\* holds a character that JSON escapes
RECURSIVE Stringify(_)
RECURSIVE StringifyItems(_)
RECURSIVE StringifyMembers(_, _)
Stringify(v) ==
  CASE v.t = "str"  -> <<"\"">> \o v.s \o <<"\"">>
    [] v.t = "num"  -> <<Digit(v.n)>>
    [] v.t = "bool" -> ToStr(v)
    [] v.t = "arr"  -> <<"[">> \o StringifyItems(v.items) \o <<"]">>
    [] v.t = "obj"  -> <<"{">> \o StringifyMembers(v, KeysOf(DOMAIN v \ {"t"})) \o <<"}">>
    [] OTHER        -> <<"n", "u", "l", "l">>

StringifyItems(items) ==
  IF items = <<>> THEN <<>>
  ELSE Stringify(Head(items))
       \o (IF Len(items) > 1 THEN <<",">> \o StringifyItems(Tail(items)) ELSE <<>>)

StringifyMembers(v, keys) ==
  IF keys = <<>> THEN <<>>
  ELSE <<"\"", Head(keys), "\"", ":">> \o Stringify(v[Head(keys)])
       \o (IF Len(keys) > 1 THEN <<",">> \o StringifyMembers(v, Tail(keys)) ELSE <<>>)

\* variant: an attack is answered 403 and the request still goes on
attackDetection_LogOnly(req) ==
  IF \E p \in DOMAIN attackPatterns :
       \/ Test(attackPatterns[p], ToLowerCase(req.url))
       \/ Test(attackPatterns[p], ToLowerCase(Stringify(req.body)))
  THEN [next |-> TRUE, status |-> 403, code |-> "Acesso negado"]
  ELSE [next |-> TRUE, status |-> 0, code |-> ""]

\* attackDetection: 403 when a pattern matches the url or the body as JSON
\* text (express.json() has set req.body, to {} when there was none)
attackDetection(req) ==
  LET url  == ToLowerCase(req.url)
      body == ToLowerCase(Stringify(req.body))
      isAttack == \E p \in DOMAIN attackPatterns :
                    Test(attackPatterns[p], url) \/ Test(attackPatterns[p], body)
  IN IF isAttack THEN [next |-> FALSE, status |-> 403, code |-> "Acesso negado"] ELSE [next |-> TRUE, status |-> 0, code |-> ""]

\* sanitizeObject: strings are sanitized, arrays and objects are rebuilt
\* around their sanitized elements, anything else is returned as it is
RECURSIVE sanitizeObject(_)
sanitizeObject(obj) ==
  LET
    \* str.trim().replace(/[<>]/g, '')
    sanitizeString(str) == SelectSeq(Trim(str), LAMBDA c : c \notin {"<", ">"})
  IN
    IF obj.t = "str" THEN Str(sanitizeString(obj.s))
    ELSE IF obj.t = "arr"
         THEN Arr([i \in 1..Len(obj.items) |-> sanitizeObject(obj.items[i])])
         ELSE IF obj.t = "obj"
              THEN [key \in DOMAIN obj |-> IF key = "t" THEN "obj" ELSE sanitizeObject(obj[key])]
              ELSE obj

\* sanitizeInput: body, query and params are replaced; next() always
sanitizeInput(req) ==
  [req EXCEPT !.body = sanitizeObject(@), !.query = sanitizeObject(@),
              !.params = sanitizeObject(@)]

\* parseInt(s, 10) for a text without sign or leading space: the number its
\* leading digits spell, NaN when it has none
ParseInt(s) ==
  LET
    DigitValue(c) ==
      CASE c = "0" -> 0 [] c = "1" -> 1 [] c = "2" -> 2 [] c = "3" -> 3 [] c = "4" -> 4
        [] c = "5" -> 5 [] c = "6" -> 6 [] c = "7" -> 7 [] c = "8" -> 8 [] OTHER -> 9
    Digits == {"0", "1", "2", "3", "4", "5", "6", "7", "8", "9"}
    RECURSIVE ParseDigits(_, _)
    ParseDigits(rest, acc) ==
      IF rest # <<>> /\ Head(rest) \in Digits
      THEN ParseDigits(Tail(rest), 10 * acc + DigitValue(Head(rest)))
      ELSE acc
  IN
    IF s # <<>> /\ Head(s) \in Digits
    THEN [nan |-> FALSE, n |-> ParseDigits(s, 0)]
    ELSE [nan |-> TRUE, n |-> 0]

\* the limit the data router gives payloadSizeLimit
maxSize == 1024 * 1024

\* payloadSizeLimit(limit): 413 when Content-Length, read as a number (0
\* when the header is absent or empty), is above the limit; a comparison
\* with NaN is false
payloadSizeLimit(limit, req) ==
  LET contentLength == ParseInt(IF req.contentLength.present /\ req.contentLength.text # <<>>
                                THEN req.contentLength.text ELSE <<"0">>)
  IN IF ~contentLength.nan /\ contentLength.n > limit
     THEN [next |-> FALSE, status |-> 413, code |-> "Payload muito grande"]
     ELSE [next |-> TRUE, status |-> 0, code |-> ""]

\* userSchema.validate(v): a string nome of 1..128, a string email of valid
\* syntax and at most 255, a string phone of 1..20 characters
userSchema(v) ==
  LET
    \* the text has one '@' with a name before it and a dotted domain after it
    \* (what Joi's string().email() asks of the short texts of the model)
    EmailSyntax(s) ==
      \E a \in 2..(Len(s) - 3) :
        /\ s[a] = "@"
        /\ \A j \in DOMAIN s : (s[j] = "@") => j = a
        /\ \E dot \in (a + 2)..(Len(s) - 1) : s[dot] = "."
        /\ \A j \in DOMAIN s : s[j] \notin Whitespace
  IN
    /\ v.t = "obj"
    /\ Prop(v, "nome").t = "str" /\ Len(Prop(v, "nome").s) \in 1..128
    /\ Prop(v, "email").t = "str" /\ Len(Prop(v, "email").s) \in 1..255
    /\ EmailSyntax(Prop(v, "email").s)
    /\ Prop(v, "phone").t = "str" /\ Len(Prop(v, "phone").s) \in 1..20

\* usersArraySchema.validate(v, { abortEarly: false, stripUnknown: true }):
\* an array of at least one user; the value has the unknown keys of its
\* objects stripped
usersArraySchema(v) ==
  IF v.t = "arr" /\ Len(v.items) >= 1 /\ \A i \in DOMAIN v.items : userSchema(v.items[i])
  THEN [error |-> FALSE,
        value |-> Arr([i \in DOMAIN v.items |->
                         [t |-> "obj", nome |-> v.items[i].nome, email |-> v.items[i].email,
                          phone |-> v.items[i].phone]])]
  ELSE [error |-> TRUE, value |-> Undef]

\* schema.validate(v, { abortEarly: false, stripUnknown: true }) for the two
\* schemas of the file, each named by its constant
Validate(schema, v) ==
  IF schema = "usersArraySchema" THEN usersArraySchema(v)
  ELSE IF userSchema(v)
       THEN [error |-> FALSE,
             value |-> [t |-> "obj", nome |-> v.nome, email |-> v.email, phone |-> v.phone]]
       ELSE [error |-> TRUE, value |-> Undef]

\* validateRequest(schema): 400 when the body fails the schema, else the
\* body is replaced by the validated value and next() is called
validateRequest(schema, req) ==
  LET r == Validate(schema, req.body)
  IN IF r.error
     THEN [next |-> FALSE, status |-> 400, code |-> "Dados de entrada invalidos", req |-> req]
     ELSE [next |-> TRUE, status |-> 0, code |-> "", req |-> [req EXCEPT !.body = r.value]]

\* validateQuery(schema): the same on req.query
validateQuery(schema, req) ==
  LET r == Validate(schema, req.query)
  IN IF r.error
     THEN [next |-> FALSE, status |-> 400, code |-> "Parametros de query invalidos", req |-> req]
     ELSE [next |-> TRUE, status |-> 0, code |-> "", req |-> [req EXCEPT !.query = r.value]]

-----------------------------------------------------------------------------
(* State *)

VARIABLES
  received,       \* the request as it reached the data router
  incoming,       \* the request object as the middleware have left it
  chain,          \* what each middleware of the router did, in order
  at,             \* the middleware of the router that is next
  request,        \* the request: its route and its two token headers
  reply,          \* what a middleware or a handler other than executeDataFlow answered
  handlers,       \* the route handlers that were called, in order
  clearAnswers,   \* how the sink answered each clear request, in order
  probeAnswers,   \* how the sink answered each reachability probe, in order
  webhookAnswers, \* how the external webhook answered each get, in order
  waited,         \* milliseconds the pending get on the external source has waited
  fetchAnswers,   \* how the external source answered each get, in order
  pc,             \* where the request stands: in the route's chain, then in its handler
  encryptedData,  \* what fetchEncryptedData returned
  decipher,       \* the decipher created by decryptHybrid
  strategies,     \* the strategies decryptHybrid ran, in order: buffer, streams
  inputChunks,    \* chunks pushed into the input stream and not yet transformed
  outputChunks,   \* plaintext chunks collected by the output stream
  decrypted,      \* the string decryptHybrid returned
  parsedData,     \* the value JSON.parse returned
  examined,       \* number of elements the map callback was called on
  users,          \* what processEncryptedData returned
  n8nResponse,    \* what sendDataToN8N returned
  sinkPosts,      \* the batches posted to the sink, in order
  sinkAnswers,    \* how the sink answered each post, in order
  response,       \* what the handler answered: res.json(...) or next(error)
  stages,         \* the stages entered, in order
  failedAt,       \* the stage whose error ended the flow
  fetchCalls,     \* calls of axios.get on the external source
  kdfCalls,       \* calls of pbkdf2Sync
  cipherCalls,    \* calls of createDecipheriv, update and final
  flows,          \* concurrent invocations of executeDataFlow: the locals of each
  heap,           \* the decipher objects the concurrent invocations created
  sideCalls       \* number of clear and health calls made while the invocations run

vars == <<request, reply, handlers, clearAnswers, probeAnswers, webhookAnswers, waited,
          fetchAnswers, pc, encryptedData, decipher, strategies, inputChunks, outputChunks,
          decrypted, parsedData, examined, users, n8nResponse, sinkPosts, sinkAnswers,
          response, stages, failedAt, fetchCalls, kdfCalls, cipherCalls,
          flows, heap, sideCalls, received, incoming, chain, at>>

NoResponse == [kind |-> "none", status |-> 0, data |-> Undef, error |-> NoError]

\* res.status(200).json({ success: true, data: users, message })
SuccessResponse(data) == [kind |-> "json", status |-> 200, data |-> data, error |-> NoError]

\* next(error)
ErrorResponse(error) == [kind |-> "next", status |-> 0, data |-> Undef, error |-> error]

NoN8N == [success |-> FALSE, error |-> NoError]

NoReply ==
  [kind |-> "none", status |-> 0, success |-> FALSE, code |-> "", n8n |-> "",
   thrown |-> NoError]

\* res.status(status).json({ success, error: code, ... })
JsonReply(status, success, code, n8n) ==
  [kind |-> "json", status |-> status, success |-> success, code |-> code, n8n |-> n8n,
   thrown |-> NoError]

\* next(error)
NextReply(error) ==
  [kind |-> "next", status |-> 0, success |-> FALSE, code |-> "", n8n |-> "",
   thrown |-> error]

\* the state of the concurrent invocations
concurrent == <<flows, heap, sideCalls>>

\* the state of the router's middleware
router == <<received, incoming, chain, at>>

\* what the steps of executeDataFlow leave alone
outside == <<request, reply, handlers, clearAnswers, probeAnswers, webhookAnswers,
             concurrent, router>>

\* what the route's chain and the other handlers leave alone
pipeline == <<encryptedData, decipher, strategies, inputChunks, outputChunks, decrypted,
              parsedData, examined, users, n8nResponse, sinkPosts, sinkAnswers, response,
              stages, failedAt, fetchCalls, kdfCalls, cipherCalls, waited, fetchAnswers,
              concurrent, router>>

\* what the router's middleware leave alone, the route apart
handling == <<encryptedData, decipher, strategies, inputChunks, outputChunks, decrypted,
              parsedData, examined, users, n8nResponse, sinkPosts, sinkAnswers, response,
              stages, failedAt, fetchCalls, kdfCalls, cipherCalls, waited, fetchAnswers,
              concurrent>>

Flows == 1..MaxFlows

\* no request has reached the router
NoReceived ==
  [route |-> "", authorization |-> NoHeader, xAccessToken |-> NoHeader, url |-> <<>>,
   body |-> Undef, query |-> Undef, params |-> Undef,
   contentLength |-> [present |-> FALSE, text |-> <<>>]]

NoAnswer == [k |-> "none", code |-> "", status |-> 0, remote |-> "", message |-> ""]

\* the locals of an invocation of executeDataFlow that has just been called
NewFlow ==
  [pc |-> "idle", got |-> NoAnswer, body |-> Undef, input |-> <<>>, output |-> <<>>,
   users |-> Undef, sink |-> NoAnswer, result |-> NoResponse]

Init ==
  /\ received = NoReceived
  /\ incoming = NoReceived
  /\ chain = <<>>
  /\ at = "attackDetection"
  /\ flows = [f \in Flows |-> NewFlow]
  /\ heap = [f \in Flows |-> Undef]
  /\ sideCalls = 0
  /\ request = NoRequest
  /\ reply = NoReply
  /\ handlers = <<>>
  /\ clearAnswers = <<>>
  /\ probeAnswers = <<>>
  /\ webhookAnswers = <<>>
  /\ waited = 0
  /\ fetchAnswers = <<>>
  /\ pc = "request"
  /\ encryptedData = Undef
  /\ decipher = Undef
  /\ strategies = <<>>
  /\ inputChunks = <<>>
  /\ outputChunks = <<>>
  /\ decrypted = Undef
  /\ parsedData = Undef
  /\ examined = 0
  /\ users = Undef
  /\ n8nResponse = NoN8N
  /\ sinkPosts = <<>>
  /\ sinkAnswers = <<>>
  /\ response = NoResponse
  /\ stages = <<>>
  /\ failedAt = "none"
  /\ fetchCalls = 0
  /\ kdfCalls = 0
  /\ cipherCalls = 0

\* variant: an error of record validation is swallowed and the flow goes on
CatchTarget_Continue(stage) == IF stage = "validate" THEN "forward" ELSE "done"

\* variant: a failed post to the sink is tried again
CatchTarget_Retry(stage) == IF stage = "forward" THEN "forward" ELSE "done"

\* where control goes when a stage throws: the catch block of
\* executeDataFlow, which calls next(error) and ends the handler
CatchTarget(stage) == "done"

\* a stage throws `error`
Throw(stage, error) ==
  /\ pc' = CatchTarget(stage)
  /\ failedAt' = stage
  /\ response' = ErrorResponse(error)

-----------------------------------------------------------------------------
(* The routes of the data router *)

\* a request reaches its route: the public routes call their handler, the
\* protected ones begin with authenticateToken
Route ==
  /\ pc = "request"
  /\ \E req \in Requests :
       /\ request' = req
       /\ IF req.route \in ProtectedRoutes
          THEN /\ pc' = "auth"
               /\ UNCHANGED handlers
          ELSE /\ pc' = req.route
               /\ handlers' = Append(handlers, HandlerOf(req.route))
  /\ UNCHANGED <<reply, clearAnswers, probeAnswers, webhookAnswers>>
  /\ UNCHANGED pipeline

\* authenticateToken answers 401 or 403 itself, or calls next()
AuthenticateToken ==
  /\ pc = "auth"
  /\ LET a == authenticateToken(request)
     IN IF ~a.next
        THEN /\ reply' = JsonReply(a.status, FALSE, a.code, "")
             /\ pc' = "answered"
             /\ UNCHANGED handlers
        ELSE IF request.route \in LimitedRoutes
             THEN /\ pc' = "limit"
                  /\ UNCHANGED <<reply, handlers>>
             ELSE /\ pc' = request.route
                  /\ handlers' = Append(handlers, HandlerOf(request.route))
                  /\ UNCHANGED reply
  /\ UNCHANGED <<request, clearAnswers, probeAnswers, webhookAnswers>>
  /\ UNCHANGED pipeline

\* criticalRateLimit: the limiter answers 429 when this address has used up
\* its requests of the window, else calls next() and the handler starts
CriticalRateLimit ==
  /\ pc = "limit"
  /\ \E exceeded \in BOOLEAN :
       IF exceeded
       THEN /\ reply' = JsonReply(429, FALSE, "Muitas tentativas de execucao, aguarde 5 minutos", "")
            /\ pc' = "answered"
            /\ UNCHANGED handlers
       ELSE /\ pc' = IF request.route = "execute" THEN "idle" ELSE request.route
            /\ handlers' = Append(handlers, HandlerOf(request.route))
            /\ UNCHANGED reply
  /\ UNCHANGED <<request, clearAnswers, probeAnswers, webhookAnswers>>
  /\ UNCHANGED pipeline

\* new CustomError(n8nResponse.error || 'Erro ao limpar dados no N8N', 500)
ClearError(r) ==
  IF r.error.text # ""
  THEN CustomError(r.error.text, r.error.arg, r.error.remote, 500)
  ELSE CustomError("Erro ao limpar dados no N8N", 0, "", 500)

\* clearData: one clear request to the sink, then the answer
ClearData ==
  /\ pc = "clear"
  /\ \E o \in AxiosErrors \cup {AxiosOk} :
       /\ clearAnswers' = Append(clearAnswers, o)
       /\ reply' = IF ClearResult(o).success
                   THEN JsonReply(200, TRUE, "", "")
                   ELSE NextReply(ClearError(ClearResult(o)))
  /\ pc' = "answered"
  /\ UNCHANGED <<request, handlers, probeAnswers, webhookAnswers>>
  /\ UNCHANGED pipeline

\* healthCheck: one probe of the sink, then the answer
HealthCheck ==
  /\ pc = "health"
  /\ \E o \in AxiosErrors \cup {AxiosOk} :
       LET n8nAvailable == checkN8NHealth(o)
       IN /\ probeAnswers' = Append(probeAnswers, o)
          /\ reply' = IF n8nAvailable.threw
                      THEN NextReply(n8nAvailable.error)
                      ELSE JsonReply(200, TRUE, "",
                                     IF n8nAvailable.value THEN "available" ELSE "unavailable")
  /\ pc' = "answered"
  /\ UNCHANGED <<request, handlers, clearAnswers, webhookAnswers>>
  /\ UNCHANGED pipeline

\* getData: one get on the external webhook, then the answer
GetData ==
  /\ pc = "get-data"
  /\ \E o \in AxiosErrors \cup {AxiosOk} :
       /\ webhookAnswers' = Append(webhookAnswers, o)
       /\ reply' = IF o.k = "ok"
                   THEN JsonReply(200, TRUE, "", "")
                   ELSE NextReply(WebhookError(o))
  /\ pc' = "answered"
  /\ UNCHANGED <<request, handlers, clearAnswers, probeAnswers>>
  /\ UNCHANGED pipeline

\* getApiInfo answers with the fixed description of the API
GetApiInfo ==
  /\ pc = "info"
  /\ reply' = JsonReply(200, TRUE, "", "")
  /\ pc' = "answered"
  /\ UNCHANGED <<request, handlers, clearAnswers, probeAnswers, webhookAnswers>>
  /\ UNCHANGED pipeline

-----------------------------------------------------------------------------
(* executeDataFlow, step by step *)

\* 1. const encryptedData = await n8nService.fetchEncryptedData(): axios.get
\* is called with the timeout of the service
StartFetch ==
  /\ pc = "idle"
  /\ pc' = "fetching"
  /\ fetchCalls' = fetchCalls + 1
  /\ stages' = Append(stages, "fetch")
  /\ waited' = 0
  /\ UNCHANGED <<fetchAnswers, encryptedData, decipher, strategies, inputChunks, outputChunks, decrypted,
                 parsedData, examined, users, n8nResponse, sinkPosts, sinkAnswers,
                 response, failedAt, kdfCalls, cipherCalls>>
  /\ UNCHANGED outside

\* time passes while the external source has not answered
Wait ==
  /\ pc = "fetching"
  /\ waited < timeout
  /\ waited' = IF waited + TickMs > timeout THEN timeout ELSE waited + TickMs
  /\ UNCHANGED <<pc, fetchAnswers, encryptedData, decipher, strategies, inputChunks,
                 outputChunks, decrypted, parsedData, examined, users, n8nResponse,
                 sinkPosts, sinkAnswers, response, stages, failedAt, fetchCalls, kdfCalls,
                 cipherCalls>>
  /\ UNCHANGED outside

\* the get settles: with an answer or an error of the source before the
\* timeout has elapsed, with the timeout error of axios once it has; no
\* call is pending any more
Fetch ==
  /\ pc = "fetching"
  /\ \E o \in AxiosErrors \cup {AxiosOk} :
       \E body \in (IF o.k = "ok" THEN ResponseBodies ELSE {Undef}) :
         /\ IsTimeout(o) <=> waited = timeout
         /\ fetchAnswers' = Append(fetchAnswers, o)
         /\ IF o.k = "ok"
            THEN /\ encryptedData' = FetchResult(body)
                 /\ pc' = "envelope"
                 /\ UNCHANGED <<failedAt, response>>
            ELSE /\ Throw("fetch", FetchError(o))
                 /\ UNCHANGED encryptedData
  /\ UNCHANGED <<decipher, strategies, inputChunks, outputChunks, decrypted,
                 parsedData, examined, users, n8nResponse, sinkPosts, sinkAnswers,
                 stages, fetchCalls, kdfCalls, cipherCalls>>
  /\ waited' = 0
  /\ UNCHANGED outside

\* 2. if (!encryptionService.validateEncryptedData(encryptedData)) throw
ValidateEnvelope ==
  /\ pc = "envelope"
  /\ stages' = Append(stages, "envelope")
  /\ IF validateEncryptedData(encryptedData)
     THEN /\ pc' = "process"
          /\ UNCHANGED <<failedAt, response>>
     ELSE Throw("envelope", CustomError("Dados criptografados invalidos", 0, "", 400))
  /\ UNCHANGED <<encryptedData, decipher, strategies, inputChunks, outputChunks,
                 decrypted, parsedData, examined, users, n8nResponse,
                 sinkPosts, sinkAnswers, fetchCalls, kdfCalls, cipherCalls>>
  /\ UNCHANGED <<outside, waited, fetchAnswers>>

\* 3. processEncryptedData, up to the call of decryptHybrid
BeginProcess ==
  /\ pc = "process"
  /\ IF IsMockData(encryptedData)
     THEN /\ users' = Prop(encryptedData, "users")
          /\ pc' = "forward"
          /\ UNCHANGED <<failedAt, response>>
     ELSE IF IsIncomplete(encryptedData)
          THEN /\ Throw("envelope", Err("Error", "Dados criptografados incompletos", 0, "", 0))
               /\ UNCHANGED users
          ELSE /\ pc' = "decrypt"
               /\ UNCHANGED <<users, failedAt, response>>
  /\ UNCHANGED <<encryptedData, decipher, strategies, inputChunks, outputChunks,
                 decrypted, parsedData, examined, n8nResponse, sinkPosts, sinkAnswers,
                 stages, fetchCalls, kdfCalls, cipherCalls>>
  /\ UNCHANGED <<outside, waited, fetchAnswers>>

\* the error the catch block of decryptHybrid throws
DecryptError == Err("Error", "Falha na descriptografia dos dados", 0, "", 0)

\* variant: the result of update is returned without calling final
decryptWithBuffer_NoFinal(encryptedBuffer, dec) ==
  LET chunk == Slice(encryptedBuffer, 0, encryptedBuffer.len)
      out   == UpdateOutput(dec, chunk)
      dec1  == DecipherUpdate(dec, chunk)
  IN [ok |-> TRUE, dec |-> dec1, text |-> ConcatText(<<out>>)]

\* decryptWithBuffer: update the whole buffer, then final
decryptWithBuffer(encryptedBuffer, dec) ==
  LET chunk == Slice(encryptedBuffer, 0, encryptedBuffer.len)
      out   == UpdateOutput(dec, chunk)
      dec1  == DecipherUpdate(dec, chunk)
  IN [ok |-> DecipherFinalOk(dec1),
      dec |-> dec1,
      text |-> IF DecipherFinalOk(dec1) THEN ConcatText(<<out>>) ELSE <<>>]

\* decryptWithStreams run to its end: every pushed chunk goes through the
\* transform callback, then flush calls final; on success the promise
\* resolves with the concatenation of the collected chunks
RECURSIVE StreamRun(_, _, _)
StreamRun(dec, chunks, out) ==
  IF chunks # <<>>
  THEN StreamRun(DecipherUpdate(dec, Head(chunks)), Tail(chunks),
                 Append(out, UpdateOutput(dec, Head(chunks))))
  ELSE [ok |-> DecipherFinalOk(dec),
        dec |-> dec,
        text |-> IF DecipherFinalOk(dec) THEN ConcatText(out) ELSE <<>>]

decryptWithStreams(encryptedBuffer, dec) ==
  StreamRun(dec, sendDataInChunks(encryptedBuffer), <<>>)

\* the error a rejection of decryptWithStreams reaches the caller of
\* decryptHybrid with: the promise is returned, not awaited, inside the try
\* block, so the catch block of decryptHybrid does not see the rejection
StreamRejection == Err("Error", FinalErrorMessage, 0, "", 0)

\* what the caller of decryptHybrid gets when the strategy is run on a
\* decipher that was created without error
HybridOutcome(encryptedBuffer, dec, useBuffer) ==
  LET r == IF useBuffer THEN decryptWithBuffer(encryptedBuffer, dec)
                        ELSE decryptWithStreams(encryptedBuffer, dec)
  IN [ok |-> r.ok,
      text |-> r.text,
      error |-> IF r.ok THEN NoError
                ELSE IF useBuffer THEN DecryptError ELSE StreamRejection]

\* decryptHybrid: decode, derive the key, create the decipher, choose the
\* strategy; the buffered strategy runs to its end here, the streamed one
\* is set up and its chunks are pushed
DecryptHybrid ==
  /\ pc = "decrypt"
  /\ stages' = Append(stages, "decrypt")
  /\ LET ivV  == Prop(encryptedData, "iv")
         ctV  == Prop(encryptedData, "encryptedData")
         tagV == Prop(encryptedData, "authTag")
     IN IF ~(IsString(ivV) /\ IsString(ctV) /\ IsString(tagV))
        THEN \* Buffer.from throws a TypeError, caught and replaced
             /\ Throw("decrypt", DecryptError)
             /\ UNCHANGED <<decipher, strategies, inputChunks, decrypted,
                            kdfCalls, cipherCalls>>
        ELSE LET ivBuffer        == HexDecode(ivV)
                 encryptedBuffer == HexDecode(ctV)
                 authTagBuffer   == HexDecode(tagV)
                 keyBuffer       == DemoKey
                 dec             == CreateDecipheriv(keyBuffer, ivBuffer, authTagBuffer)
             IN /\ kdfCalls' = kdfCalls + 1
                /\ IF IvRejected(ivBuffer) \/ TagRejected(authTagBuffer)
                   THEN \* createDecipheriv or setAuthTag throws
                        /\ cipherCalls' = cipherCalls + 1
                        /\ Throw("decrypt", DecryptError)
                        /\ UNCHANGED <<decipher, strategies, inputChunks, decrypted>>
                   ELSE IF UseBuffer(encryptedBuffer.len)
                        THEN LET r == HybridOutcome(encryptedBuffer, dec, TRUE)
                             IN /\ strategies' = Append(strategies, "buffer")
                                /\ decipher' = decryptWithBuffer(encryptedBuffer, dec).dec
                                /\ cipherCalls' = cipherCalls + 3
                                /\ UNCHANGED inputChunks
                                /\ IF r.ok
                                   THEN /\ decrypted' = [t |-> "text", text |-> r.text]
                                        /\ pc' = "parse"
                                        /\ UNCHANGED <<failedAt, response>>
                                   ELSE /\ Throw("decrypt", r.error)
                                        /\ UNCHANGED decrypted
                        ELSE /\ strategies' = Append(strategies, "streams")
                             /\ decipher' = dec
                             /\ cipherCalls' = cipherCalls + 1
                             /\ inputChunks' = sendDataInChunks(encryptedBuffer)
                             /\ pc' = "stream"
                             /\ UNCHANGED <<decrypted, failedAt, response>>
  /\ UNCHANGED <<encryptedData, outputChunks, parsedData, examined, users,
                 n8nResponse, sinkPosts, sinkAnswers, fetchCalls>>
  /\ UNCHANGED <<outside, waited, fetchAnswers>>

\* decryptWithStreams: the transform callback takes the next chunk
StreamTransform ==
  /\ pc = "stream"
  /\ inputChunks # <<>>
  /\ outputChunks' = Append(outputChunks, UpdateOutput(decipher, Head(inputChunks)))
  /\ decipher' = DecipherUpdate(decipher, Head(inputChunks))
  /\ inputChunks' = Tail(inputChunks)
  /\ cipherCalls' = cipherCalls + 1
  /\ UNCHANGED <<pc, encryptedData, strategies, decrypted, parsedData, examined,
                 users, n8nResponse, sinkPosts, sinkAnswers, response, stages, failedAt,
                 fetchCalls, kdfCalls>>
  /\ UNCHANGED <<outside, waited, fetchAnswers>>

\* variant: the error of decipher.final() is dropped and the stream goes on
\* to finish
StreamFlush_Resolving ==
  /\ pc = "stream"
  /\ inputChunks = <<>>
  /\ cipherCalls' = cipherCalls + 1
  /\ pc' = "finish"
  /\ UNCHANGED <<failedAt, response>>
  /\ UNCHANGED <<encryptedData, decipher, strategies, inputChunks, outputChunks,
                 decrypted, parsedData, examined, users, n8nResponse,
                 sinkPosts, sinkAnswers, stages, fetchCalls, kdfCalls>>
  /\ UNCHANGED <<outside, waited, fetchAnswers>>

\* decryptWithStreams: the flush callback calls decipher.final()
StreamFlush ==
  /\ pc = "stream"
  /\ inputChunks = <<>>
  /\ cipherCalls' = cipherCalls + 1
  /\ IF DecipherFinalOk(decipher)
     THEN /\ pc' = "finish"
          /\ UNCHANGED <<failedAt, response>>
     ELSE Throw("decrypt", StreamRejection)
  /\ UNCHANGED <<encryptedData, decipher, strategies, inputChunks, outputChunks,
                 decrypted, parsedData, examined, users, n8nResponse,
                 sinkPosts, sinkAnswers, stages, fetchCalls, kdfCalls>>
  /\ UNCHANGED <<outside, waited, fetchAnswers>>

\* decryptWithStreams: the output stream finishes and the promise resolves
StreamFinish ==
  /\ pc = "finish"
  /\ decrypted' = [t |-> "text", text |-> ConcatText(outputChunks)]
  /\ pc' = "parse"
  /\ UNCHANGED <<encryptedData, decipher, strategies, inputChunks, outputChunks,
                 parsedData, examined, users, n8nResponse, sinkPosts, sinkAnswers, response,
                 stages, failedAt, fetchCalls, kdfCalls, cipherCalls>>
  /\ UNCHANGED <<outside, waited, fetchAnswers>>

\* processEncryptedData after decryptHybrid: JSON.parse, Array.isArray, map
ParseRecords ==
  /\ pc = "parse"
  /\ IF JsonParseFails(decrypted.text)
     THEN /\ stages' = Append(stages, "parse")
          /\ Throw("parse", Err("Error", "Dados descriptografados nao sao um JSON valido", 0, "", 0))
          /\ UNCHANGED <<parsedData, examined, users>>
     ELSE LET parsed == JsonParse(decrypted.text)
          IN /\ stages' = stages \o <<"parse", "validate">>
             /\ parsedData' = parsed
             /\ IF parsed.t # "arr"
                THEN /\ Throw("validate", Err("Error", "Dados descriptografados devem ser um array", 0, "", 0))
                     /\ UNCHANGED <<examined, users>>
                ELSE LET r == MapUsers(parsed.items, 1, <<>>)
                     IN /\ examined' = r.examined
                        /\ IF r.ok
                           THEN /\ users' = Arr(r.users)
                                /\ pc' = "forward"
                                /\ UNCHANGED <<failedAt, response>>
                           ELSE /\ Throw("validate", r.error)
                                /\ UNCHANGED users
  /\ UNCHANGED <<encryptedData, decipher, strategies, inputChunks, outputChunks,
                 decrypted, n8nResponse, sinkPosts, sinkAnswers, fetchCalls, kdfCalls,
                 cipherCalls>>
  /\ UNCHANGED <<outside, waited, fetchAnswers>>

\* variant: a failure of the sink is reported with the one message of the
\* decryption stage
ForwardError_Masked(r) == DecryptError

\* new CustomError(n8nResponse.error || 'Erro ao enviar dados para N8N', 500)
ForwardError(r) ==
  IF r.error.text # ""
  THEN CustomError(r.error.text, r.error.arg, r.error.remote, 500)
  ELSE CustomError("Erro ao enviar dados para N8N", 0, "", 500)

\* 4. sendDataToN8N(users), then the success test and the answer
Forward ==
  /\ pc = "forward"
  /\ \E o \in AxiosErrors \cup {AxiosOk} :
       LET r == SendResult(o)
       IN /\ n8nResponse' = r
          /\ sinkAnswers' = Append(sinkAnswers, o)
          /\ IF r.success
             THEN /\ response' = SuccessResponse(users)
                  /\ pc' = "done"
                  /\ UNCHANGED failedAt
             ELSE Throw("forward", ForwardError(r))
  /\ sinkPosts' = Append(sinkPosts, users)
  /\ stages' = Append(stages, "forward")
  /\ UNCHANGED <<encryptedData, decipher, strategies, inputChunks, outputChunks,
                 decrypted, parsedData, examined, users, fetchCalls, kdfCalls,
                 cipherCalls>>
  /\ UNCHANGED <<outside, waited, fetchAnswers>>

Next ==
  \/ Route
  \/ AuthenticateToken
  \/ CriticalRateLimit
  \/ ClearData
  \/ HealthCheck
  \/ GetData
  \/ GetApiInfo
  \/ StartFetch
  \/ Wait
  \/ Fetch
  \/ ValidateEnvelope
  \/ BeginProcess
  \/ DecryptHybrid
  \/ StreamTransform
  \/ StreamFlush
  \/ StreamFinish
  \/ ParseRecords
  \/ Forward

Spec == Init /\ [][Next]_vars

-----------------------------------------------------------------------------
(* A request on its way through the middleware of the data router, up to
   the call of its handler *)

\* the requests that reach the data router
ReceivedRequests ==
  LET
    \* the url of a route inside the router
    PathOf(route) ==
      CASE route = "execute"  -> <<"/", "e", "x", "e", "c", "u", "t", "e">>
        [] route = "clear"    -> <<"/", "c", "l", "e", "a", "r">>
        [] route = "get-data" -> <<"/", "g", "e", "t", "-", "d", "a", "t", "a">>
        [] route = "health"   -> <<"/", "h", "e", "a", "l", "t", "h">>
        [] OTHER              -> <<"/", "i", "n", "f", "o">>
    EmptyObject == [t |-> "obj"]
    \* query strings, each with the object Express parses it to
    QueryChoices ==
      { [text |-> <<>>, query |-> EmptyObject],
        [text |-> <<"?", "q", "=", "e", "v", "a", "l", "(">>,
         query |-> [t |-> "obj", q |-> Str(<<"e", "v", "a", "l", "(">>)]],
        [text |-> <<"?", "q", "=", "a", "%", "3", "e">>,
         query |-> [t |-> "obj", q |-> Str(<<"a", ">">>)]],
        [text |-> <<"?", "n", "o", "m", "e", "=", "a", "&", "e", "m", "a", "i", "l", "=",
                    "a", "@", "x", ".", "b", "&", "p", "h", "o", "n", "e", "=", "1">>,
         query |-> [t |-> "obj", nome |-> Str(<<"a">>),
                    email |-> Str(<<"a", "@", "x", ".", "b">>), phone |-> Str(<<"1">>)]] }
    \* bodies as express.json() leaves them: no body, padded and bracketed
    \* texts, a script tag, nested arrays and objects, an array of one user
    BodyChoices ==
      { EmptyObject,
        [t |-> "obj", q |-> Str(<<" ", "<", "a", ">", " ">>)],
        [t |-> "obj", q |-> Str(<<"<", " ", "a">>)],
        [t |-> "obj", q |-> Str(<<"<", "s", "c", "r", "i", "p", "t">>)],
        [t |-> "obj", q |-> Arr(<<Str(<<" ", "a", " ">>), Num(5), Null,
                                  [t |-> "obj", r |-> Str(<<"a", " ", ">">>)]>>)],
        Arr(<<[t |-> "obj", nome |-> Str(<<"a">>), email |-> Str(<<"a", "@", "x", ".", "b">>),
               phone |-> Str(<<"1">>), id |-> Num(1)]>>) }
    \* Content-Length headers: absent, the limit, one byte more, not a number
    ContentLengths ==
      { [present |-> FALSE, text |-> <<>>],
        [present |-> TRUE, text |-> <<"1", "0", "4", "8", "5", "7", "6">>],
        [present |-> TRUE, text |-> <<"1", "0", "4", "8", "5", "7", "7">>],
        [present |-> TRUE, text |-> <<"x">>] }
  IN
    { [route |-> r.route, authorization |-> r.authorization, xAccessToken |-> r.xAccessToken,
       url |-> PathOf(r.route) \o q.text, body |-> b, query |-> q.query,
       params |-> EmptyObject, contentLength |-> c] :
        r \in Requests, q \in QueryChoices, b \in BodyChoices, c \in ContentLengths }

\* what the route and its handler read of a request
RequestOf(r) ==
  [route |-> r.route, authorization |-> r.authorization, xAccessToken |-> r.xAccessToken]

\* router.use(attackDetection): the first middleware a request meets
AttackDetection ==
  /\ at = "attackDetection"
  /\ pc = "request"
  /\ \E r \in ReceivedRequests :
       /\ received' = r
       /\ incoming' = r
       /\ chain' = Append(chain, ([by |-> "attackDetection"] @@ attackDetection(r)))
       /\ at' = IF attackDetection(r).next THEN "sanitizeInput" ELSE "sent"
  /\ UNCHANGED <<request, reply, handlers, clearAnswers, probeAnswers, webhookAnswers, pc>>
  /\ UNCHANGED handling

\* router.use(sanitizeInput)
SanitizeInput ==
  /\ at = "sanitizeInput"
  /\ incoming' = sanitizeInput(incoming)
  /\ chain' = Append(chain, ([by |-> "sanitizeInput"] @@ [next |-> TRUE, status |-> 0, code |-> ""]))
  /\ at' = "payloadSizeLimit"
  /\ UNCHANGED <<received, request, reply, handlers, clearAnswers, probeAnswers,
                 webhookAnswers, pc>>
  /\ UNCHANGED handling

\* router.use(payloadSizeLimit(1024 * 1024))
PayloadSizeLimit ==
  /\ at = "payloadSizeLimit"
  /\ chain' = Append(chain, ([by |-> "payloadSizeLimit"] @@ payloadSizeLimit(maxSize, incoming)))
  /\ at' = IF payloadSizeLimit(maxSize, incoming).next THEN "route" ELSE "sent"
  /\ UNCHANGED <<received, incoming, request, reply, handlers, clearAnswers, probeAnswers,
                 webhookAnswers, pc>>
  /\ UNCHANGED handling

\* the request reaches its route
Dispatch ==
  /\ at = "route"
  /\ Route
  /\ request' = RequestOf(incoming)

RouterNext ==
  \/ AttackDetection
  \/ SanitizeInput
  \/ PayloadSizeLimit
  \/ Dispatch
  \/ AuthenticateToken
  \/ CriticalRateLimit
  \/ ClearData
  \/ HealthCheck
  \/ GetData
  \/ GetApiInfo

RouterSpec == Init /\ [][RouterNext]_vars

-----------------------------------------------------------------------------
(* executeDataFlow as a function of what it fetched and what the sink answered *)

\* processEncryptedData after decryptHybrid: JSON.parse, Array.isArray, map
ParseAndValidate(text) ==
  IF JsonParseFails(text)
  THEN [ok |-> FALSE, users |-> Undef,
        error |-> Err("Error", "Dados descriptografados nao sao um JSON valido", 0, "", 0)]
  ELSE IF JsonParse(text).t # "arr"
       THEN [ok |-> FALSE, users |-> Undef,
             error |-> Err("Error", "Dados descriptografados devem ser um array", 0, "", 0)]
       ELSE LET r == MapUsers(JsonParse(text).items, 1, <<>>)
            IN IF r.ok
               THEN [ok |-> TRUE, users |-> Arr(r.users), error |-> NoError]
               ELSE [ok |-> FALSE, users |-> Undef, error |-> r.error]

\* processEncryptedData for a fetched value that passed validateEncryptedData
processEncryptedData(d) ==
  IF IsMockData(d)
  THEN [ok |-> TRUE, users |-> Prop(d, "users"), error |-> NoError]
  ELSE IF IsIncomplete(d)
       THEN [ok |-> FALSE, users |-> Undef,
             error |-> Err("Error", "Dados criptografados incompletos", 0, "", 0)]
       ELSE LET ivBuffer        == HexDecode(Prop(d, "iv"))
                encryptedBuffer == HexDecode(Prop(d, "encryptedData"))
                authTagBuffer   == HexDecode(Prop(d, "authTag"))
                dec == CreateDecipheriv(DemoKey, ivBuffer, authTagBuffer)
            IN IF IvRejected(ivBuffer) \/ TagRejected(authTagBuffer)
               THEN [ok |-> FALSE, users |-> Undef, error |-> DecryptError]
               ELSE LET r == HybridOutcome(encryptedBuffer, dec, UseBuffer(encryptedBuffer.len))
                    IN IF r.ok
                       THEN ParseAndValidate(r.text)
                       ELSE [ok |-> FALSE, users |-> Undef, error |-> r.error]

\* the batch executeDataFlow posts to the sink for the fetched value d, and
\* whether it gets that far
BatchOf(d) ==
  IF ~validateEncryptedData(d)
  THEN [ok |-> FALSE, users |-> Undef,
        error |-> CustomError("Dados criptografados invalidos", 0, "", 400)]
  ELSE processEncryptedData(d)

\* what executeDataFlow answers when the get gave `got` with the body
\* `body` and the sink answered the post with `sink`
executeDataFlow(got, body, sink) ==
  IF got.k # "ok"
  THEN ErrorResponse(FetchError(got))
  ELSE LET b == BatchOf(FetchResult(body))
       IN IF ~b.ok
          THEN ErrorResponse(b.error)
          ELSE IF SendResult(sink).success
               THEN SuccessResponse(b.users)
               ELSE ErrorResponse(ForwardError(SendResult(sink)))

-----------------------------------------------------------------------------
(* Concurrent invocations of executeDataFlow.  A step is what runs between
   two awaits or stream callbacks; the steps of different invocations
   interleave. *)

\* the variables of the single request
single == <<request, reply, handlers, clearAnswers, probeAnswers, webhookAnswers, waited,
            fetchAnswers, pc, encryptedData, decipher, strategies, inputChunks,
            outputChunks, decrypted, parsedData, examined, users, n8nResponse, sinkPosts,
            sinkAnswers, response, stages, failedAt, fetchCalls, kdfCalls, cipherCalls,
            received, incoming, chain, at>>

\* what the external source answers the concurrent invocations
ConcurrentBodies ==
  { SealedEnvelope(DemoKey, [size |-> threshold, doc |-> Arr(<<GoodUser>>)], "none"),
    SealedEnvelope(DemoKey, [size |-> SmallSize, doc |-> Arr(<<GoodUser>>)], "none"),
    SealedEnvelope(DemoKey, [size |-> SmallSize, doc |-> Arr(<<GoodUser>>)], "tag"),
    [t |-> "obj", mockData |-> Bool(TRUE), users |-> Arr(<<GoodUser>>)],
    Undef }

ConcurrentAnswers ==
  { AxiosOk,
    [k |-> "axios", code |-> "ERR_BAD_RESPONSE", status |-> 503, remote |-> "workflow down",
     message |-> "Request failed with status code 503"] }

\* variant: one decipher object is kept in the service and used by every call
DecipherOf_Shared(f) == 1

\* the decipher object an invocation works on: const decipher =
\* crypto.createDecipheriv(...) is a local of the call of decryptHybrid, a
\* new object each time
DecipherOf(f) == f

\* the invocation ends with an error passed to next()
Fail(f, error) ==
  flows' = [flows EXCEPT ![f].pc = "done", ![f].result = ErrorResponse(error)]

\* the handler is called and sends the get
Invoke(f) ==
  /\ flows[f].pc = "idle"
  /\ flows' = [flows EXCEPT ![f].pc = "fetching"]
  /\ UNCHANGED <<heap, sideCalls>>
  /\ UNCHANGED single

\* the get settles; validateEncryptedData and processEncryptedData run up
\* to the first await: to the post to the sink, or into the streams
Fetched(f) ==
  /\ flows[f].pc = "fetching"
  /\ \E got \in ConcurrentAnswers :
       \E body \in (IF got.k = "ok" THEN ConcurrentBodies ELSE {Undef}) :
         LET d  == FetchResult(body)
             fl == [flows[f] EXCEPT !.got = got, !.body = body]
         IN IF got.k # "ok"
            THEN /\ flows' = [flows EXCEPT ![f] = [fl EXCEPT !.pc = "done",
                                  !.result = ErrorResponse(FetchError(got))]]
                 /\ UNCHANGED heap
            ELSE IF ~validateEncryptedData(d) \/ IsMockData(d) \/ IsIncomplete(d)
            THEN /\ flows' = [flows EXCEPT ![f] =
                                IF BatchOf(d).ok
                                THEN [fl EXCEPT !.pc = "forwarding", !.users = BatchOf(d).users]
                                ELSE [fl EXCEPT !.pc = "done",
                                                !.result = ErrorResponse(BatchOf(d).error)]]
                 /\ UNCHANGED heap
            ELSE LET ivBuffer        == HexDecode(Prop(d, "iv"))
                     encryptedBuffer == HexDecode(Prop(d, "encryptedData"))
                     authTagBuffer   == HexDecode(Prop(d, "authTag"))
                     dec == CreateDecipheriv(DemoKey, ivBuffer, authTagBuffer)
                 IN IF IvRejected(ivBuffer) \/ TagRejected(authTagBuffer)
                    THEN /\ flows' = [flows EXCEPT ![f] = [fl EXCEPT !.pc = "done",
                                          !.result = ErrorResponse(DecryptError)]]
                         /\ UNCHANGED heap
                    ELSE IF UseBuffer(encryptedBuffer.len)
                    THEN LET r  == HybridOutcome(encryptedBuffer, dec, TRUE)
                             pv == ParseAndValidate(r.text)
                         IN /\ heap' = [heap EXCEPT ![DecipherOf(f)] =
                                          decryptWithBuffer(encryptedBuffer, dec).dec]
                            /\ flows' = [flows EXCEPT ![f] =
                                  IF ~r.ok
                                  THEN [fl EXCEPT !.pc = "done", !.result = ErrorResponse(r.error)]
                                  ELSE IF ~pv.ok
                                  THEN [fl EXCEPT !.pc = "done", !.result = ErrorResponse(pv.error)]
                                  ELSE [fl EXCEPT !.pc = "forwarding", !.users = pv.users]]
                    ELSE /\ heap' = [heap EXCEPT ![DecipherOf(f)] = dec]
                         /\ flows' = [flows EXCEPT ![f] =
                               [fl EXCEPT !.pc = "stream",
                                          !.input = sendDataInChunks(encryptedBuffer)]]
  /\ UNCHANGED sideCalls
  /\ UNCHANGED single

\* the transform callback of an invocation takes its next chunk
Transform(f) ==
  /\ flows[f].pc = "stream"
  /\ flows[f].input # <<>>
  /\ LET dec   == heap[DecipherOf(f)]
         chunk == Head(flows[f].input)
     IN /\ heap' = [heap EXCEPT ![DecipherOf(f)] = DecipherUpdate(dec, chunk)]
        /\ flows' = [flows EXCEPT ![f].input = Tail(flows[f].input),
                                  ![f].output = Append(flows[f].output,
                                                       UpdateOutput(dec, chunk))]
  /\ UNCHANGED sideCalls
  /\ UNCHANGED single

\* the flush callback of an invocation calls final()
Flush(f) ==
  /\ flows[f].pc = "stream"
  /\ flows[f].input = <<>>
  /\ IF DecipherFinalOk(heap[DecipherOf(f)])
     THEN flows' = [flows EXCEPT ![f].pc = "finish"]
     ELSE Fail(f, StreamRejection)
  /\ UNCHANGED <<heap, sideCalls>>
  /\ UNCHANGED single

\* the output stream of an invocation finishes: the text is parsed and
\* validated and the batch is posted
Finish(f) ==
  /\ flows[f].pc = "finish"
  /\ LET pv == ParseAndValidate(ConcatText(flows[f].output))
     IN IF pv.ok
        THEN flows' = [flows EXCEPT ![f].pc = "forwarding", ![f].users = pv.users]
        ELSE Fail(f, pv.error)
  /\ UNCHANGED <<heap, sideCalls>>
  /\ UNCHANGED single

\* the sink answers the post of an invocation, which answers its caller
Answered(f) ==
  /\ flows[f].pc = "forwarding"
  /\ \E sink \in ConcurrentAnswers :
       flows' = [flows EXCEPT ![f].pc = "done",
                              ![f].sink = sink,
                              ![f].result = IF SendResult(sink).success
                                            THEN SuccessResponse(flows[f].users)
                                            ELSE ErrorResponse(ForwardError(SendResult(sink)))]
  /\ UNCHANGED <<heap, sideCalls>>
  /\ UNCHANGED single

\* a clear or a health call runs in between: clearDataInN8N and
\* checkN8NHealth read and write no field of the services
SideCall ==
  /\ sideCalls < MaxSideCalls
  /\ sideCalls' = sideCalls + 1
  /\ UNCHANGED <<flows, heap>>
  /\ UNCHANGED single

ConcurrentNext ==
  \/ \E f \in Flows : Invoke(f)
  \/ \E f \in Flows : Fetched(f)
  \/ \E f \in Flows : Transform(f)
  \/ \E f \in Flows : Flush(f)
  \/ \E f \in Flows : Finish(f)
  \/ \E f \in Flows : Answered(f)
  \/ SideCall

ConcurrentSpec == Init /\ [][ConcurrentNext]_vars

-----------------------------------------------------------------------------
(* Properties *)

StageOrder == <<"fetch", "envelope", "decrypt", "parse", "validate", "forward">>

StageIndex(stage) == CHOOSE i \in DOMAIN StageOrder : StageOrder[i] = stage

\* the stages of a trace appear in pipeline order, none twice
InPipelineOrder(trace) ==
  \A i, j \in DOMAIN trace : i < j => StageIndex(trace[i]) < StageIndex(trace[j])

\* the three envelope fields of the fetched value, decoded as decryptHybrid
\* decodes them
EnvelopeIsStrings ==
  /\ IsString(Prop(encryptedData, "encryptedData"))
  /\ IsString(Prop(encryptedData, "iv"))
  /\ IsString(Prop(encryptedData, "authTag"))

CtBuffer == HexDecode(Prop(encryptedData, "encryptedData"))

IvBuffer == HexDecode(Prop(encryptedData, "iv"))

TagBuffer == HexDecode(Prop(encryptedData, "authTag"))

\* C1: the stages run in the order fetch, envelope, decrypt, parse,
\* validate, forward; the step in which a stage fails ends the flow with
\* that stage's error, nothing runs after a failure, and the sink is never
\* called after a failure of an earlier stage.
C1_StagesInOrderFailFast ==
  [][ /\ failedAt = "none"
      /\ InPipelineOrder(stages')
      /\ failedAt' # "none" =>
           /\ pc' = "done"
           /\ stages'[Len(stages')] = failedAt'
           /\ response'.kind = "next"
           /\ response'.error # NoError
           /\ failedAt' # "forward" => sinkPosts' = <<>> ]_vars

C1_Witness ==
  /\ pc = "done"
  /\ failedAt = "validate"
  /\ stages = <<"fetch", "envelope", "decrypt", "parse", "validate">>
  /\ sinkPosts = <<>>

\* the fetched value has the demo shape
DemoShape(d) ==
  /\ d.t = "obj"
  /\ "mockData" \in DOMAIN d
  /\ "users" \in DOMAIN d
  /\ Truthy(d.mockData)
  /\ Truthy(d.users)

\* a field that is missing, not a string, or the empty string
BadField(d, f) ==
  \/ d.t # "obj"
  \/ f \notin DOMAIN d
  \/ d[f].t \notin {"str", "hex"}
  \/ (d[f].t = "str" /\ d[f].s = <<>>)
  \/ (d[f].t = "hex" /\ d[f].chars = 0)

MalformedEnvelope(d) ==
  /\ ~DemoShape(d)
  /\ \E f \in {"encryptedData", "iv", "authTag"} : BadField(d, f)

\* C2: once the envelope stage has run on a malformed envelope, the flow has
\* ended there with the 400 error of the envelope check, and no key was
\* derived and no cipher call made.
C2_MalformedRejectedBeforeCrypto ==
  (Len(stages) >= 2 /\ MalformedEnvelope(encryptedData)) =>
    /\ pc = "done"
    /\ failedAt = "envelope"
    /\ stages = <<"fetch", "envelope">>
    /\ response = ErrorResponse(CustomError("Dados criptografados invalidos", 0, "", 400))
    /\ kdfCalls = 0
    /\ cipherCalls = 0
    /\ decipher = Undef

C2_Witness ==
  /\ failedAt = "envelope"
  /\ encryptedData.t = "obj"
  /\ ~BadField(encryptedData, "encryptedData")
  /\ ~BadField(encryptedData, "iv")
  /\ Prop(encryptedData, "authTag") = Undef
  /\ cipherCalls = 0

\* the tag of the fetched envelope does not authenticate its ciphertext
\* under the derived key and its nonce
TagMismatch ==
  /\ ~DemoShape(encryptedData)
  /\ EnvelopeIsStrings
  /\ TagBuffer.data # GcmMac(DemoKey, IvBuffer, CtBuffer)

\* C3: when the tag does not verify (wrong tag, or ciphertext, nonce or tag
\* altered), decryptHybrid returns nothing under either strategy: no
\* decrypted text, parsed value or record reaches the caller, and the flow
\* ends in failure.
C3_NoPlaintextWithoutAuthentication ==
  TagMismatch =>
    /\ decrypted = Undef
    /\ parsedData = Undef
    /\ users = Undef
    /\ response.data = Undef
    /\ sinkPosts = <<>>
    /\ pc \notin {"finish", "parse", "forward"}
    /\ pc = "done" => response.kind = "next"

\* the streamed strategy had produced plaintext chunks when final failed
C3_Witness ==
  /\ TagMismatch
  /\ strategies = <<"streams">>
  /\ pc = "done"
  /\ failedAt = "decrypt"
  /\ Len(outputChunks) > 1
  /\ decrypted = Undef

\* what decryptHybrid gave its caller in this run
ActualOutcome ==
  IF decrypted # Undef
  THEN [ok |-> TRUE, text |-> decrypted.text, error |-> NoError]
  ELSE [ok |-> FALSE, text |-> <<>>, error |-> response.error]

\* what it gives when the strategy is forced
ForcedOutcome(useBuffer) ==
  HybridOutcome(CtBuffer, CreateDecipheriv(DemoKey, IvBuffer, TagBuffer), useBuffer)

\* C4: for the envelope of this run, the buffered and the streamed strategy
\* give the caller of decryptHybrid the same text or the same failure, and
\* the strategy that ran gave what the other one would have given.
C4_StrategiesEquivalent ==
  (strategies # <<>> /\ (decrypted # Undef \/ failedAt = "decrypt")) =>
    /\ ForcedOutcome(TRUE) = ForcedOutcome(FALSE)
    /\ ActualOutcome = ForcedOutcome(strategies[1] # "buffer")

\* C5: a strategy is chosen by the decoded ciphertext length alone, buffer
\* iff the length is below 1 MiB and streams otherwise (so at exactly
\* 1 MiB), and one decryption runs exactly one strategy.
C5_StrategyBySize ==
  /\ Len(strategies) <= 1
  /\ decrypted # Undef => Len(strategies) = 1
  /\ strategies # <<>> =>
       /\ strategies[1] = "buffer" <=> CtBuffer.len < 1048576
       /\ strategies[1] = "streams" <=> CtBuffer.len >= 1048576
       /\ strategies[1] = "buffer" => (inputChunks = <<>> /\ outputChunks = <<>>)

C5_Witness ==
  /\ strategies = <<"streams">>
  /\ CtBuffer.len = 1048576
  /\ decrypted # Undef

RecordFields == {"nome", "email", "phone"}

MaxFieldLength(f) == CASE f = "nome" -> 128 [] f = "email" -> 255 [] OTHER -> 20

\* the UserRecord invariant: the three fields are present, strings, trimmed,
\* non-empty and within their length bounds
ValidUserRecord(u) ==
  /\ u.t = "obj"
  /\ \A f \in RecordFields :
       /\ f \in DOMAIN u
       /\ u[f].t = "str"
       /\ u[f].s # <<>>
       /\ u[f].s[1] # " "
       /\ u[f].s[Len(u[f].s)] # " "
       /\ Len(u[f].s) <= MaxFieldLength(f)

ValidBatch(b) ==
  /\ b.t = "arr"
  /\ \A i \in DOMAIN b.items : ValidUserRecord(b.items[i])

\* C6: every batch posted to the sink, and every batch returned to the
\* caller, holds only records that satisfy the UserRecord invariant,
\* whichever shape the envelope had.
C6_ForwardedBatchesValid ==
  /\ \A i \in DOMAIN sinkPosts : ValidBatch(sinkPosts[i])
  /\ response.kind = "json" => ValidBatch(response.data)

\* an element without a present, non-empty nome, email or phone
LacksField(e) ==
  \/ e.t # "obj"
  \/ \E f \in RecordFields :
       \/ f \notin DOMAIN e
       \/ e[f] \in {Undef, Null, Str(<<>>)}

FirstLacking(items) ==
  CHOOSE i \in DOMAIN items :
    /\ LacksField(items[i])
    /\ \A j \in 1..(i - 1) : ~LacksField(items[j])

\* C7: when the decrypted array holds an element without a present,
\* non-empty nome, email or phone, record validation fails with the
\* incomplete-record error that names the position (from 1) of the first
\* such element, the callback has looked at no later element, and no
\* record is returned.
C7_FirstIncompleteReported ==
  (parsedData.t = "arr" /\ \E i \in DOMAIN parsedData.items : LacksField(parsedData.items[i])) =>
    /\ failedAt = "validate"
    /\ response.error =
         Err("Error", "Usuario %d esta incompleto", FirstLacking(parsedData.items), "", 0)
    /\ examined = FirstLacking(parsedData.items)
    /\ users = Undef
    /\ sinkPosts = <<>>

\* out is s without its leading and trailing spaces
IsTrimOf(out, s) ==
  \E a \in 1..(Len(s) + 1) : \E b \in 0..Len(s) :
    /\ out = SubSeq(s, a, b)
    /\ \A k \in 1..(a - 1) : s[k] = " "
    /\ \A k \in (b + 1)..Len(s) : s[k] = " "
    /\ out # <<>> => (out[1] # " " /\ out[Len(out)] # " ")

UpperToLower == {<<"A", "a">>, <<"B", "b">>, <<"X", "x">>}

\* out is s with every upper-case letter replaced by its lower-case letter
IsLowerOf(out, s) ==
  /\ Len(out) = Len(s)
  /\ \A k \in 1..Len(s) :
       IF \E p \in UpperToLower : p[1] = s[k]
       THEN <<s[k], out[k]>> \in UpperToLower
       ELSE out[k] = s[k]

\* C8: every record returned by record validation is the normalization of
\* the input element at its position: nome and phone are the trimmed input
\* texts, email is the trimmed input text in lower case, and the record has
\* no other field.
C8_OutputIsNormalization ==
  (parsedData.t = "arr" /\ users # Undef) =>
    \A i \in DOMAIN users.items :
      LET in  == parsedData.items[i]
          out == users.items[i]
      IN /\ DOMAIN out = {"t", "nome", "email", "phone"}
         /\ out.t = "obj"
         /\ out.nome.t = "str" /\ out.email.t = "str" /\ out.phone.t = "str"
         /\ IsTrimOf(out.nome.s, ToStr(in.nome))
         /\ IsTrimOf(out.phone.s, ToStr(in.phone))
         /\ \E m \in {SubSeq(ToStr(in.email), a, b) :
                        a \in 1..(Len(ToStr(in.email)) + 1), b \in 0..Len(ToStr(in.email))} :
              /\ IsTrimOf(m, ToStr(in.email))
              /\ IsLowerOf(out.email.s, m)

\* an accepted batch with padded, upper-case input and an extra field
C8_Witness ==
  /\ parsedData.t = "arr"
  /\ users # Undef
  /\ \E i \in DOMAIN parsedData.items : parsedData.items[i] = GoodUser
  /\ \E i \in DOMAIN parsedData.items :
       /\ parsedData.items[i].t = "obj"
       /\ parsedData.items[i].id # Undef

\* C9: when record validation succeeds, the output has as many records as
\* the input has elements, every element was looked at, and the record at
\* each position is built from the input element at that position.
C9_LengthAndOrderPreserved ==
  (parsedData.t = "arr" /\ users # Undef) =>
    /\ users.t = "arr"
    /\ Len(users.items) = Len(parsedData.items)
    /\ examined = Len(parsedData.items)
    /\ \A i \in DOMAIN parsedData.items :
         users.items[i] = NormalizeUser(parsedData.items[i])

C9_Witness ==
  /\ parsedData.t = "arr"
  /\ users # Undef
  /\ Len(users.items) >= 2
  /\ users.items[1] # users.items[2]

\* C10: the handler answers success only after exactly one post to the
\* sink that the sink answered with success, no stage having failed, and
\* the records it returns are the batch that was posted.
C10_SuccessOnlyAfterSinkSuccess ==
  response.kind = "json" =>
    /\ pc = "done"
    /\ failedAt = "none"
    /\ response.status = 200
    /\ Len(sinkPosts) = 1
    /\ Len(sinkAnswers) = 1
    /\ sinkAnswers[1].k = "ok"
    /\ n8nResponse.success
    /\ response.data = sinkPosts[1]
    /\ stages[Len(stages)] = "forward"

C10_Witness ==
  /\ response.kind = "json"
  /\ strategies = <<"buffer">>
  /\ response.data.t = "arr"
  /\ Len(response.data.items) = 2
  /\ sinkPosts = <<response.data>>

LocalStages == {"envelope", "decrypt", "parse", "validate"}

\* the answers the caller can get for a failure of the post to the sink
ForwardReports(development) ==
  { errorHandler(ForwardError(SendResult(o)), development) : o \in AxiosErrors }

\* C11: when the sink answers the post with a non-success status, or the
\* post fails in transport, the flow ends as a failure of the forward stage
\* whose reported answer carries the remote status and message; and no
\* failure of the envelope, decrypt, parse or validate stage is reported
\* with an answer that a failure of the sink can be reported with.
C11_SinkFailureDistinctFromLocal ==
  \A development \in BOOLEAN :
    LET reported == errorHandler(response.error, development)
    IN /\ (sinkAnswers # <<>> /\ sinkAnswers[1].k # "ok") =>
            /\ pc = "done"
            /\ failedAt = "forward"
            /\ response.kind = "next"
            /\ reported \in ForwardReports(development)
            /\ reported.status = 500
            /\ sinkAnswers[1].k = "axios" =>
                 /\ reported.error.arg = StatusOf(sinkAnswers[1])
                 /\ reported.error.remote = MessageOf(sinkAnswers[1])
       /\ failedAt = "forward" => sinkAnswers[1].k # "ok"
       /\ failedAt \in LocalStages => reported \notin ForwardReports(development)

\* the sink answered 503 with a message of its own
C11_Witness ==
  /\ failedAt = "forward"
  /\ sinkAnswers[1].status = 503
  /\ errorHandler(response.error, FALSE).error =
       [text |-> "Erro do N8N (%d): %s", arg |-> 503, remote |-> "workflow down"]

\* the stage a reported message names
StageNamedBy(text) ==
  CASE text \in {"Erro ao buscar dados (%d): %s",
                 "Erro interno ao buscar dados criptografados"} -> "fetch"
    [] text \in {"Dados criptografados invalidos",
                 "Dados criptografados incompletos"} -> "envelope"
    [] text \in {"Falha na descriptografia dos dados",
                 "Unsupported state or unable to authenticate data"} -> "decrypt"
    [] text = "Dados descriptografados nao sao um JSON valido" -> "parse"
    [] text \in {"Dados descriptografados devem ser um array",
                 "Usuario %d esta incompleto",
                 "Tipo de dados invalido"} -> "validate"
    [] text \in {"Erro do N8N (%d): %s",
                 "Erro interno ao comunicar com N8N",
                 "Erro ao enviar dados para N8N"} -> "forward"
    [] OTHER -> "unknown"

C13_DecryptFailuresIndistinguishable ==
  failedAt = "decrypt" =>
    \A development \in BOOLEAN :
      errorHandler(response.error, development) = errorHandler(DecryptError, development)

\* the number of times a stage was entered
Entered(stage) == Cardinality({i \in DOMAIN stages : stages[i] = stage})

\* C14: in one invocation the external source is fetched at most once, a key
\* is derived and a strategy run at most once, the sink is posted to at most
\* once, no stage is entered twice, and after a failure the flow is over.
C14_NoStageRetried ==
  /\ fetchCalls <= 1
  /\ kdfCalls <= 1
  /\ Len(strategies) <= 1
  /\ Len(sinkPosts) <= 1
  /\ Len(sinkAnswers) <= 1
  /\ \A i \in DOMAIN StageOrder : Entered(StageOrder[i]) <= 1
  /\ failedAt # "none" => pc = "done"

\* the post to the sink failed after every earlier stage had run once
C14_Witness ==
  /\ failedAt = "forward"
  /\ pc = "done"
  /\ fetchCalls = 1
  /\ kdfCalls = 1
  /\ Len(sinkPosts) = 1

\* the answers the caller can get for a failure of the get that is not a
\* timeout
OtherTransportReports(development) ==
  { errorHandler(FetchError(o), development) : o \in {e \in AxiosErrors : ~IsTimeout(e)} }

\* C15: the get on the external source never waits longer than the timeout
\* of 30 s; when it gave up waiting the flow has ended as a failure of the
\* fetch stage, and the answer reported for it is one that no other failure
\* of the get is reported with.
C15_TimeoutEndsFetchDistinctly ==
  /\ waited <= timeout
  /\ (fetchAnswers # <<>> /\ IsTimeout(fetchAnswers[1])) =>
       /\ pc = "done"
       /\ failedAt = "fetch"
       /\ stages = <<"fetch">>
       /\ response.kind = "next"
       /\ \A development \in BOOLEAN :
            errorHandler(response.error, development) \notin OtherTransportReports(development)

\* C17: the health handler answers 200 with success whatever the probe of
\* the sink gave: checkN8NHealth turns every error or timeout of the probe
\* into false, nothing is passed to next(), and the sink is reported
\* available exactly when the probe returned.
C17_HealthNeverFails ==
  request.route = "health" =>
    /\ reply.kind # "next"
    /\ Len(probeAnswers) <= 1
    /\ pc = "answered" =>
         /\ Len(probeAnswers) = 1
         /\ ~checkN8NHealth(probeAnswers[1]).threw
         /\ reply = JsonReply(200, TRUE, "",
                              IF probeAnswers[1].k = "ok" THEN "available" ELSE "unavailable")

\* the probe timed out
C17_Witness ==
  /\ request.route = "health"
  /\ pc = "answered"
  /\ IsTimeout(probeAnswers[1])
  /\ reply.status = 200
  /\ reply.n8n = "unavailable"

\* C18: a request on the clear route never fetches, validates an envelope,
\* derives a key, decrypts or posts records; clearData makes exactly one
\* clear request to the sink, and answers success exactly when the sink
\* answered that request with success, else passes a 500 error to next().
C18_ClearIndependentOfPipeline ==
  request.route = "clear" =>
    /\ fetchCalls = 0 /\ fetchAnswers = <<>> /\ encryptedData = Undef
    /\ stages = <<>> /\ failedAt = "none"
    /\ kdfCalls = 0 /\ cipherCalls = 0 /\ decipher = Undef /\ strategies = <<>>
    /\ decrypted = Undef /\ parsedData = Undef /\ users = Undef
    /\ sinkPosts = <<>> /\ sinkAnswers = <<>> /\ response = NoResponse
    /\ probeAnswers = <<>> /\ webhookAnswers = <<>>
    /\ Len(clearAnswers) = (IF "clearData" \in {handlers[i] : i \in DOMAIN handlers}
                                /\ pc = "answered" THEN 1 ELSE 0)
    /\ clearAnswers # <<>> =>
         IF clearAnswers[1].k = "ok"
         THEN reply = JsonReply(200, TRUE, "", "")
         ELSE /\ reply.kind = "next"
              /\ ~reply.success
              /\ errorHandler(reply.thrown, FALSE).status = 500

\* the sink answered the clear request with 503
C18_Witness ==
  /\ request.route = "clear"
  /\ handlers = <<"clearData">>
  /\ Len(clearAnswers) = 1
  /\ clearAnswers[1].status = 503
  /\ reply.kind = "next"

\* the fetched envelope was sealed under the derived key: its ciphertext is
\* the encryption of a plaintext under that key and its nonce, and its tag
\* is the tag over that ciphertext
SealedUnderKey ==
  /\ ~DemoShape(encryptedData)
  /\ EnvelopeIsStrings
  /\ CtBuffer.data.k = "ct"
  /\ CtBuffer = GcmSeal(DemoKey, IvBuffer, CtBuffer.data.pt)
  /\ TagBuffer = Buffer(16, GcmMac(DemoKey, IvBuffer, CtBuffer))

\* the text that is the bytes of pt, all of them, once
WholeText(pt) == IF pt.size = 0 THEN <<>> ELSE <<Slice(pt, 0, pt.size)>>

CollectedAlone(d, n) ==
  LET chunks == sendDataInChunks(HexDecode(Prop(d, "encryptedData")))
      dec    == CreateDecipheriv(DemoKey, HexDecode(Prop(d, "iv")),
                                 HexDecode(Prop(d, "authTag")))
  IN [k \in 1..n |->
        UpdateOutput([dec EXCEPT !.fed = SubSeq(chunks, 1, k - 1)], chunks[k])]

\* C16: in every interleaving of concurrent invocations (with clear and
\* health calls in between), the plaintext pieces an invocation has
\* collected, the batch it posts and the answer it gives are those that
\* executeDataFlow gives, run alone, for what this invocation fetched and
\* for what the sink answered to it.
C16_InvocationsIndependent ==
  \A f \in Flows :
    /\ flows[f].pc \in {"stream", "finish"} =>
         flows[f].output = CollectedAlone(FetchResult(flows[f].body), Len(flows[f].output))
    /\ flows[f].pc = "forwarding" =>
         /\ BatchOf(FetchResult(flows[f].body)).ok
         /\ flows[f].users = BatchOf(FetchResult(flows[f].body)).users
    /\ flows[f].pc = "done" =>
         /\ flows[f].result = executeDataFlow(flows[f].got, flows[f].body, flows[f].sink)
         /\ flows[f].result.kind = "json" =>
              flows[f].users = BatchOf(FetchResult(flows[f].body)).users

\* one invocation ended with success through the streams while another,
\* started meanwhile, is in the middle of its own streams, and a clear or
\* health call ran as well
C16_Witness ==
  /\ flows[1].result.kind = "json"
  /\ Len(flows[1].output) > 1
  /\ flows[2].pc = "stream"
  /\ flows[2].output # <<>>
  /\ flows[2].input # <<>>
  /\ sideCalls > 0

\* the token a request presents: the one after the scheme of Authorization,
\* or else the one of x-access-token; '' when there is none
PresentedToken(req) ==
  IF req.authorization.present
  THEN IF Len(req.authorization.words) >= 2 THEN req.authorization.words[2] ELSE ""
  ELSE IF req.xAccessToken.present THEN req.xAccessToken.words[1] ELSE ""

\* no call of the external source, the cipher, the sink or the webhook was made
NoCalls ==
  /\ fetchCalls = 0 /\ fetchAnswers = <<>>
  /\ kdfCalls = 0 /\ cipherCalls = 0
  /\ sinkPosts = <<>> /\ clearAnswers = <<>> /\ webhookAnswers = <<>>
  /\ stages = <<>>

\* C20: on the execute, clear and get-data routes the handler is called
\* only when the presented token is the fixed token; a request with no
\* token is answered 401 and one with another token 403, and as long as the
\* handler was not called no fetch, cipher, sink, clear or webhook call was
\* made; on the health and info routes the handler is called whatever the
\* headers are.
C20_ProtectedHandlersNeedTheToken ==
  /\ Len(handlers) <= 1
  /\ handlers # <<>> => handlers[1] = HandlerOf(request.route)
  /\ request.route \in ProtectedRoutes =>
       /\ handlers # <<>> => PresentedToken(request) = FIXED_TOKEN
       /\ handlers = <<>> => NoCalls
       /\ (pc # "auth" /\ PresentedToken(request) = "") =>
            /\ pc = "answered"
            /\ handlers = <<>>
            /\ reply = JsonReply(401, FALSE, "MISSING_TOKEN", "")
       /\ (pc # "auth" /\ PresentedToken(request) \notin {"", FIXED_TOKEN}) =>
            /\ pc = "answered"
            /\ handlers = <<>>
            /\ reply = JsonReply(403, FALSE, "INVALID_TOKEN", "")
  /\ request.route \in {"health", "info"} => handlers = <<HandlerOf(request.route)>>

\* another token on a protected route: 403, and the handler was not called
C20_Witness ==
  /\ request.route = "get-data"
  /\ PresentedToken(request) = "another-token"
  /\ reply.status = 403
  /\ handlers = <<>>
  /\ webhookAnswers = <<>>

\* authenticateToken let the request of this run through
Admitted ==
  /\ request.route \in ProtectedRoutes
  /\ pc \notin {"request", "auth"}
  /\ reply.status \notin {401, 403}

\* C21: on a protected route, a request that carries the fixed token as
\* 'Authorization: Bearer <token>', and every request whose x-access-token
\* header is the fixed token, whatever its Authorization header is, is let
\* through by authenticateToken.
C21_EitherHeaderAuthenticates ==
  (request.route \in ProtectedRoutes /\ pc \notin {"request", "auth"}) =>
    /\ request.authorization = Header(TRUE, <<"Bearer", FIXED_TOKEN>>) => Admitted
    /\ request.xAccessToken = Header(TRUE, <<FIXED_TOKEN>>) => Admitted

\* the ciphertext buffer decryptHybrid decoded in this run
StreamedBuffer == HexDecode(Prop(encryptedData, "encryptedData"))

\* the chunks of the streamed strategy: those the cipher has taken, then
\* those still waiting in the input stream
StreamedChunks == decipher.fed \o inputChunks

\* C22: in the streamed strategy the chunks given to the cipher are the
\* consecutive pieces of the ciphertext, the k-th starting at offset
\* (k-1) * 64 KiB, each of 64 KiB except a last one that may be shorter,
\* covering every byte once; final is called once, and only when no chunk is
\* left to process.
C22_ChunksInOrderFinalOnce ==
  strategies = <<"streams">> =>
    /\ Consecutive(StreamedChunks, StreamedBuffer, 0)
    /\ TotalLen(StreamedChunks) = StreamedBuffer.len
    /\ \A k \in 1..Len(StreamedChunks) :
         /\ StreamedChunks[k].from = (k - 1) * chunkSize
         /\ \/ StreamedChunks[k].to - StreamedChunks[k].from = chunkSize
            \/ /\ k = Len(StreamedChunks)
               /\ StreamedChunks[k].to - StreamedChunks[k].from \in 1..chunkSize
    /\ pc = "stream" => cipherCalls = 1 + Len(decipher.fed)
    /\ pc # "stream" => /\ inputChunks = <<>>
                        /\ cipherCalls = 1 + Len(decipher.fed) + 1

\* a ciphertext of more than one chunk, the last one shorter, went through
\* the cipher and final was called
C22_Witness ==
  /\ strategies = <<"streams">>
  /\ pc = "finish"
  /\ Len(decipher.fed) > 1
  /\ decipher.fed[Len(decipher.fed)].to - decipher.fed[Len(decipher.fed)].from < chunkSize

\* the bodies { success: true, data: { encrypted } } the source documents
SuccessfulDocumentedBodies == {b \in DocumentedBodies : Truthy(Prop(b, "success"))}

IncompleteError == Err("Error", "Dados criptografados incompletos", 0, "", 0)

\* the flow is inside processEncryptedData, or past it
InsideProcess == pc \in {"process", "decrypt", "stream", "finish", "parse", "forward"}

\* C24: every fetched value that validateEncryptedData accepts is taken by
\* processEncryptedData along the same branch: a demo batch is returned as
\* it is, without any decryption, anything else has its three fields, all
\* non-empty strings, passed on to decryptHybrid, and the 'incomplete' error
\* is never raised.  A rejected value ends the flow at the envelope check
\* with the 400 error and processEncryptedData is not called.
C24_ValidationAndProcessingAgree ==
  /\ InsideProcess => validateEncryptedData(encryptedData)
  /\ response.error # IncompleteError
  /\ (Len(stages) >= 2 /\ validateEncryptedData(encryptedData)) =>
       /\ failedAt # "envelope"
       /\ (IsMockData(encryptedData) /\ pc # "process") =>
            /\ users = Prop(encryptedData, "users")
            /\ stages \in {<<"fetch", "envelope">>, <<"fetch", "envelope", "forward">>}
            /\ kdfCalls = 0
       /\ ~IsMockData(encryptedData) =>
            /\ ~IsIncomplete(encryptedData)
            /\ IsString(Prop(encryptedData, "encryptedData"))
            /\ IsString(Prop(encryptedData, "iv"))
            /\ IsString(Prop(encryptedData, "authTag"))
            /\ pc \notin {"process", "decrypt"} =>
                 (Len(stages) >= 3 /\ stages[3] = "decrypt" /\ kdfCalls = 1)
  /\ (Len(stages) >= 2 /\ ~validateEncryptedData(encryptedData)) =>
       /\ pc = "done"
       /\ failedAt = "envelope"
       /\ response = ErrorResponse(CustomError("Dados criptografados invalidos", 0, "", 400))
       /\ users = Undef
       /\ kdfCalls = 0

\* an accepted ciphertext triple is about to be decrypted
C24_Witness ==
  /\ pc = "decrypt"
  /\ validateEncryptedData(encryptedData)
  /\ ~IsMockData(encryptedData)
  /\ ~IsIncomplete(encryptedData)

\* the status code an error text is expected to carry for the outcome o
CodeFor(o) == IF o.status # 0 THEN o.status ELSE 500

\* r is a returned result for the outcome o of the HTTP call: success
\* exactly when the call completed, else an error text; the text carries the
\* status code for every failure (always), or for the failures axios
\* reports, the others getting the fixed text `internal` without a code
ResultFor(r, o, internal, always) ==
  /\ r.success <=> o.k = "ok"
  /\ r.success => r.error = NoError
  /\ ~r.success =>
       IF always \/ o.k = "axios"
       THEN /\ r.error.text = "Erro do N8N (%d): %s"
            /\ r.error.arg = CodeFor(o)
       ELSE r.error = Err("", internal, 0, "", 0)

\* the sink operations returned a value the handler built its answer from
\* (the batch handed to sendDataToN8N is never null or undefined, so the
\* reads of users.length in it do not throw), and the fetch operation
\* returned data or threw
ValuesAndExceptions(always) ==
  /\ (pc = "forward" \/ sinkPosts # <<>>) => ~Nullish(users)
  /\ sinkAnswers # <<>> =>
       /\ ResultFor(n8nResponse, sinkAnswers[1], "Erro interno ao comunicar com N8N", always)
       /\ IF n8nResponse.success
          THEN failedAt = "none"
          ELSE /\ failedAt = "forward"
               /\ response.error = CustomError(n8nResponse.error.text, n8nResponse.error.arg,
                                               n8nResponse.error.remote, 500)
  /\ clearAnswers # <<>> =>
       LET r == ClearResult(clearAnswers[1])
       IN /\ ResultFor(r, clearAnswers[1], "Erro interno ao comunicar com N8N para limpeza", always)
          /\ IF r.success
             THEN reply.kind = "json"
             ELSE /\ reply.kind = "next"
                  /\ reply.thrown = CustomError(r.error.text, r.error.arg, r.error.remote, 500)
  /\ fetchAnswers # <<>> =>
       IF fetchAnswers[1].k = "ok"
       THEN failedAt # "fetch"
       ELSE /\ failedAt = "fetch"
            /\ encryptedData = Undef
            /\ response.kind = "next"
            /\ response.error = FetchError(fetchAnswers[1])
            /\ response.error.statusCode = 0

\* C25 (as stated): sendDataToN8N and clearDataInN8N return a result whose
\* success flag is true exactly when the HTTP call completed, and whose error
\* text carries the remote status code, or 500 without a response, on every
\* failure; fetchEncryptedData returns data or throws.
C25_SinkErrorsCarryStatus == ValuesAndExceptions(TRUE)

\* C25 (amended): as above, but the error text carries the status code (or
\* 500) only when the failure is an axios error; any other error in the call
\* gives the fixed text 'Erro interno ao comunicar com N8N' (with 'para
\* limpeza' for the clear request) without a code.
C25_SinkErrorsAreValues == ValuesAndExceptions(FALSE)

\* the post failed with an error that axios did not make
C25_Witness ==
  /\ sinkAnswers # <<>>
  /\ sinkAnswers[1].k = "other"
  /\ failedAt = "forward"
  /\ n8nResponse.error.arg = 0

\* the promise of decryptWithStreams: not settled, resolved, rejected
StreamPending == strategies = <<"streams">> /\ pc \in {"stream", "finish"}

StreamResolved == strategies = <<"streams">> /\ decrypted # Undef

StreamRejected == strategies = <<"streams">> /\ failedAt = "decrypt"

\* the callbacks that still have to run before the promise settles
StreamStepsLeft ==
  IF pc = "stream" THEN Len(inputChunks) + 2 ELSE IF pc = "finish" THEN 1 ELSE 0

ClientErrorNames == {"ValidationError", "CastError", "SyntaxError", "TypeError"}

\* C29: the answer errorHandler builds for the error a failed flow passed to
\* next() has success false; its status is 400, with a fixed message, when
\* the error is named ValidationError, CastError, SyntaxError or TypeError,
\* and else the statusCode of the error, or 500, with the error's own
\* message; so a failure of the envelope check is answered 400 and a failure
\* of the fetch, decrypt, parse, validate or forward stage is answered 500.
C29_StatusByErrorKind ==
  failedAt # "none" =>
    \A development \in BOOLEAN :
      LET reported == errorHandler(response.error, development)
      IN /\ reported.success = FALSE
         /\ IF response.error.name \in ClientErrorNames
            THEN /\ reported.status = 400
                 /\ reported.error.arg = 0 /\ reported.error.remote = ""
            ELSE /\ reported.status =
                      (IF response.error.statusCode # 0 THEN response.error.statusCode ELSE 500)
                 /\ reported.error = MessageText(response.error)
         /\ failedAt = "envelope" => reported.status = 400
         /\ failedAt \in {"fetch", "decrypt", "parse", "validate", "forward"} =>
              reported.status = 500

\* every string in v, at any depth, is trimmed and holds no '<' and no '>'
RECURSIVE AllSanitized(_)
AllSanitized(v) ==
  CASE v.t = "str" -> /\ Trim(v.s) = v.s
                      /\ \A i \in DOMAIN v.s : v.s[i] \notin {"<", ">"}
    [] v.t = "arr" -> \A i \in DOMAIN v.items : AllSanitized(v.items[i])
    [] v.t = "obj" -> \A key \in DOMAIN v \ {"t"} : AllSanitized(v[key])
    [] OTHER       -> TRUE

\* b has the keys, the array lengths and the leaves that are no strings of a
RECURSIVE SameShape(_, _)
SameShape(a, b) ==
  /\ a.t = b.t
  /\ CASE a.t = "str" -> TRUE
       [] a.t = "arr" -> /\ Len(a.items) = Len(b.items)
                         /\ \A i \in DOMAIN a.items : SameShape(a.items[i], b.items[i])
       [] a.t = "obj" -> /\ DOMAIN a = DOMAIN b
                         /\ \A key \in DOMAIN a \ {"t"} : SameShape(a[key], b[key])
       [] OTHER       -> a = b

\* sanitizeInput has run on the request
Sanitized == \E i \in DOMAIN chain : chain[i].by = "sanitizeInput"

\* C28: once sanitizeInput has run, running it again would change neither
\* body nor query nor params: every string in them is trimmed and free of
\* '<' and '>', and they have the keys, array lengths and non-string leaves
\* of what was received.
C28_SanitizeIdempotent ==
  Sanitized =>
    \A part \in {"body", "query", "params"} :
      /\ sanitizeObject(incoming[part]) = incoming[part]
      /\ AllSanitized(incoming[part])
      /\ SameShape(received[part], incoming[part])

\* a middleware did exactly one of the two: it called next() and sent
\* nothing, or it sent one answer and did not call next()
OneOfTwo(e) == e.next <=> e.status = 0

\* the answers sent for the request: by the middleware of the router, and
\* by the route (authenticateToken, the limiter, the handler or, for an
\* error passed to next(), errorHandler)
AnswersSent ==
  Cardinality({i \in DOMAIN chain : chain[i].status # 0})
  + (IF reply.kind # "none" THEN 1 ELSE 0)

\* C27: attackDetection, payloadSizeLimit, authenticateToken, validateRequest
\* and validateQuery each either call next() and send nothing or send one
\* error answer and do not call next(); along the chain of a data route no
\* middleware runs after one that answered, at most one answer is sent, and
\* a handler is called only after attackDetection, sanitizeInput and
\* payloadSizeLimit, and authenticateToken on a protected route, called
\* next().
C27_NextOrOneAnswer ==
  /\ received # NoReceived =>
       /\ OneOfTwo(attackDetection(received))
       /\ OneOfTwo(payloadSizeLimit(maxSize, incoming))
       /\ OneOfTwo(authenticateToken(RequestOf(incoming)))
       /\ \A schema \in {"usersArraySchema", "userSchema"} :
            /\ OneOfTwo(validateRequest(schema, incoming))
            /\ OneOfTwo(validateQuery(schema, incoming))
            /\ validateRequest(schema, incoming).status \in {0, 400}
            /\ validateQuery(schema, incoming).status \in {0, 400}
  /\ \A i \in DOMAIN chain :
       /\ OneOfTwo(chain[i])
       /\ i < Len(chain) => chain[i].next
  /\ AnswersSent <= 1
  /\ (pc # "request" \/ handlers # <<>>) =>
       /\ [i \in DOMAIN chain |-> chain[i].by]
            = <<"attackDetection", "sanitizeInput", "payloadSizeLimit">>
       /\ \A i \in DOMAIN chain : chain[i].next /\ chain[i].status = 0
  /\ handlers # <<>> =>
       /\ Len(handlers) = 1
       /\ request.route \in ProtectedRoutes => authenticateToken(request).next
  /\ (chain # <<>> /\ ~chain[Len(chain)].next) =>
       (pc = "request" /\ handlers = <<>> /\ reply = NoReply /\ at = "sent")

\* a request with the token went through the whole chain to its handler
C27_Witness ==
  /\ Len(chain) = 3
  /\ request.route = "clear"
  /\ handlers = <<"clearData">>
  /\ reply.kind = "json"
  /\ incoming.body # received.body

====
